---- MODULE Spec2Model ----
(***************************************************************************)
(* UK in-year tax estimator (2025/26): a model of the calculation engine   *)
(* of src/unnamed/part_000, lines 281-1348 (the PAYE-period version of     *)
(* calculationLogic.ts).                                                   *)
(*                                                                         *)
(* Numbers.  The engine computes on IEEE doubles holding pounds.           *)
(*   - A decimal of two places (an amount the caller passes, a result of   *)
(*     Math.round(x * 100) / 100) is an integer count of HALF-PENCE, 200   *)
(*     to the pound.  The double it stands for is the one nearest to it:   *)
(*     what reading the literal and what dividing the rounded integer by   *)
(*     100 both give.                                                      *)
(*   - A number the engine computes is a Num [x, d]: x is its exact value  *)
(*     in half-pence and d the double operations that produced it, which   *)
(*     Double(d) carries out in IEEE arithmetic (round to nearest, ties to *)
(*     even).  Infinity, -Infinity and NaN are Nums of a kind of their     *)
(*     own, which only safeRound is handed.                                *)
(*   - Rates are whole percents.  The tax a band walk accumulates is held  *)
(*     exactly, as whole half-pence plus hundredths of a half-penny, and   *)
(*     walked again in doubles when its rounding needs the double.         *)
(* The doubles of a call lie within 2^-20 half-pence of the exact values   *)
(* (amounts are below 2^31 half-pence and pass through a few dozen         *)
(* operations).  So numbers whose exact values differ compare as the exact *)
(* values do, and a number whose exact value is not half-way between two   *)
(* pence rounds to the penny nearest to the exact value.  Where the exact  *)
(* values are equal, or the exact value is half-way, the doubles decide.   *)
(***************************************************************************)
EXTENDS Integers, Sequences, FiniteSets, TLC

----------------------------------------------------------------------------
(* Units                                                                   *)

\* Half-pence in a pound and in a penny.
UnitsPerPound == 2 * 100
GBP(pounds) == pounds * UnitsPerPound
Pence(p) == 2 * p

Min(a, b) == IF a <= b THEN a ELSE b
Max(a, b) == IF a >= b THEN a ELSE b

----------------------------------------------------------------------------
(* IEEE double arithmetic                                                  *)

\* Natural numbers of any size: little-endian sequences of digits in base
\* 2^15, without leading zero digits (<<>> is 0).
Base == 32 * 1024

Digit(a, i) == IF i <= Len(a) THEN a[i] ELSE 0

RECURSIVE Pow2(_)
Pow2(k) == IF k = 0 THEN 1 ELSE 2 * Pow2(k - 1)

RECURSIVE BigStrip(_)
BigStrip(a) ==
  IF a = <<>> THEN a
  ELSE IF a[Len(a)] = 0 THEN BigStrip(SubSeq(a, 1, Len(a) - 1)) ELSE a

\* The natural n < 2^31.
BigOfInt(n) ==
  IF n = 0 THEN <<>>
  ELSE IF n < Base THEN <<n>>
  ELSE IF n < Base * Base THEN <<n % Base, n \div Base>>
  ELSE <<n % Base, (n \div Base) % Base, n \div (Base * Base)>>

\* The integer a < 2^31.
BigToInt(a) == Digit(a, 1) + Base * Digit(a, 2) + Base * Base * Digit(a, 3)

\* a + b, digit by digit from digit i on with the carry.
RECURSIVE BigAddFrom(_, _, _, _)
BigAddFrom(a, b, i, carry) ==
  IF i > Len(a) /\ i > Len(b)
  THEN IF carry = 0 THEN <<>> ELSE <<carry>>
  ELSE <<(Digit(a, i) + Digit(b, i) + carry) % Base>>
         \o BigAddFrom(a, b, i + 1, (Digit(a, i) + Digit(b, i) + carry) \div Base)

BigAdd(a, b) == BigAddFrom(a, b, 1, 0)

\* a - b for a >= b, from digit i on with the borrow.
RECURSIVE BigSubFrom(_, _, _, _)
BigSubFrom(a, b, i, borrow) ==
  IF i > Len(a) THEN <<>>
  ELSE <<(Digit(a, i) - Digit(b, i) - borrow + Base) % Base>>
         \o BigSubFrom(a, b, i + 1,
                       IF Digit(a, i) - Digit(b, i) - borrow < 0 THEN 1 ELSE 0)

BigSub(a, b) == BigStrip(BigSubFrom(a, b, 1, 0))

\* -1, 0 or 1 as a < b, a = b or a > b, for a and b of the same length,
\* from digit i down.
RECURSIVE BigCmpFrom(_, _, _)
BigCmpFrom(a, b, i) ==
  IF i = 0 THEN 0
  ELSE IF a[i] < b[i] THEN 0 - 1
  ELSE IF a[i] > b[i] THEN 1
  ELSE BigCmpFrom(a, b, i - 1)

BigCmp(a, b) ==
  IF Len(a) < Len(b) THEN 0 - 1
  ELSE IF Len(a) > Len(b) THEN 1
  ELSE BigCmpFrom(a, b, Len(a))

\* a * k for a digit k, from digit i on with the carry.
RECURSIVE BigMulDigitFrom(_, _, _, _)
BigMulDigitFrom(a, k, i, carry) ==
  IF i > Len(a) THEN IF carry = 0 THEN <<>> ELSE <<carry>>
  ELSE <<(a[i] * k + carry) % Base>>
         \o BigMulDigitFrom(a, k, i + 1, (a[i] * k + carry) \div Base)

BigMulDigit(a, k) == IF k = 0 THEN <<>> ELSE BigMulDigitFrom(a, k, 1, 0)

\* a * (the digits of b from digit j on), for a # 0 and b # 0.
RECURSIVE BigMulFrom(_, _, _)
BigMulFrom(a, b, j) ==
  IF j = Len(b) THEN BigMulDigit(a, b[j])
  ELSE BigAdd(BigMulDigit(a, b[j]), <<0>> \o BigMulFrom(a, b, j + 1))

BigMul(a, b) == IF a = <<>> \/ b = <<>> THEN <<>> ELSE BigMulFrom(a, b, 1)

\* a * 2^k.
BigShl(a, k) ==
  IF a = <<>> THEN a
  ELSE [i \in 1..(k \div 15) |-> 0] \o BigMulDigit(a, Pow2(k % 15))

\* floor(a / n) and a mod n for 0 < n <= Base, from digit i down with the
\* remainder of the digits above.
RECURSIVE BigDivDigitFrom(_, _, _, _)
BigDivDigitFrom(a, n, i, rem) ==
  IF i = 0 THEN <<>>
  ELSE BigDivDigitFrom(a, n, i - 1, (rem * Base + a[i]) % n)
         \o <<(rem * Base + a[i]) \div n>>

BigDivDigit(a, n) == BigStrip(BigDivDigitFrom(a, n, Len(a), 0))

RECURSIVE BigModDigitFrom(_, _, _, _)
BigModDigitFrom(a, n, i, rem) ==
  IF i = 0 THEN rem ELSE BigModDigitFrom(a, n, i - 1, (rem * Base + a[i]) % n)

BigModDigit(a, n) == BigModDigitFrom(a, n, Len(a), 0)

\* floor(a / 2^k).
BigShr(a, k) ==
  IF k \div 15 >= Len(a) THEN <<>>
  ELSE BigDivDigit(SubSeq(a, (k \div 15) + 1, Len(a)), Pow2(k % 15))

\* Whether a has a one among its lowest k bits.
BigLowBits(a, k) ==
  \/ \E i \in 1..Min(k \div 15, Len(a)) : a[i] # 0
  \/ (k \div 15 < Len(a) /\ a[(k \div 15) + 1] % Pow2(k % 15) # 0)

\* Bit k of a, bit 0 being the lowest.
BigBit(a, k) == (Digit(a, (k \div 15) + 1) \div Pow2(k % 15)) % 2

\* The number of bits of the digit n, and of a.
RECURSIVE BitLen(_)
BitLen(n) == IF n = 0 THEN 0 ELSE 1 + BitLen(n \div 2)

BigBitLen(a) == IF a = <<>> THEN 0 ELSE 15 * (Len(a) - 1) + BitLen(a[Len(a)])

\* A double is [neg, m, e]: the number (neg ? -1 : 1) * m * 2^e with m a
\* natural of exactly 53 bits, or zero (m = <<>>, e = 0).  The engine's
\* amounts are far from the subnormal and the overflow range.
FZero == [neg |-> FALSE, m |-> <<>>, e |-> 0]

\* The double (neg ? -1 : 1) * q * 2^e for a q of 53 bits, or of 54 bits
\* with the lowest one 0.
Normalised(neg, q, e) ==
  IF BigBitLen(q) = 54 THEN [neg |-> neg, m |-> BigShr(q, 1), e |-> e + 1]
  ELSE [neg |-> neg, m |-> q, e |-> e]

\* Round to nearest, ties to the even mantissa: whether M + s, cut sh > 0
\* bits from its end, is rounded up.
RoundsUp(M, sh, sticky) ==
  /\ BigBit(M, sh - 1) = 1
  /\ (sticky \/ BigLowBits(M, sh - 1) \/ BigBit(M, sh) = 1)

\* The double nearest to (neg ? -1 : 1) * (M + s) * 2^e, where s is some
\* amount in (0, 1) when sticky and 0 otherwise.
RoundToDouble(neg, M, e, sticky) ==
  IF M = <<>> THEN FZero
  ELSE IF BigBitLen(M) <= 53
  THEN [neg |-> neg, m |-> BigShl(M, 53 - BigBitLen(M)), e |-> e - (53 - BigBitLen(M))]
  ELSE Normalised(neg,
                  IF RoundsUp(M, BigBitLen(M) - 53, sticky)
                  THEN BigAdd(BigShr(M, BigBitLen(M) - 53), <<1>>)
                  ELSE BigShr(M, BigBitLen(M) - 53),
                  e + (BigBitLen(M) - 53))

\* The double of an integer |n| < 2^31.
FromInt(n) == RoundToDouble(n < 0, BigOfInt(IF n < 0 THEN 0 - n ELSE n), 0, FALSE)

\* -1, 0, 1 as |a| < |b|, |a| = |b|, |a| > |b|, for a # 0 and b # 0.
FCmpAbs(a, b) ==
  IF a.e < b.e THEN 0 - 1
  ELSE IF a.e > b.e THEN 1
  ELSE BigCmp(a.m, b.m)

\* -1, 0, 1 as a < b, a = b, a > b.
FCmp(a, b) ==
  IF a.m = <<>> /\ b.m = <<>> THEN 0
  ELSE IF a.m = <<>> THEN (IF b.neg THEN 1 ELSE 0 - 1)
  ELSE IF b.m = <<>> THEN (IF a.neg THEN 0 - 1 ELSE 1)
  ELSE IF a.neg # b.neg THEN (IF a.neg THEN 0 - 1 ELSE 1)
  ELSE IF a.neg THEN 0 - FCmpAbs(a, b) ELSE FCmpAbs(a, b)

FLt(a, b) == FCmp(a, b) < 0
FLe(a, b) == FCmp(a, b) <= 0

\* Math.min and Math.max of two doubles.
FMin(a, b) == IF FLt(b, a) THEN b ELSE a
FMax(a, b) == IF FLt(a, b) THEN b ELSE a

\* The sign and the size of (aneg ? -A : A) + (bneg ? -B : B).
SignedSum(aneg, A, bneg, B) ==
  IF aneg = bneg THEN [neg |-> aneg, M |-> BigAdd(A, B)]
  ELSE IF BigCmp(A, B) >= 0 THEN [neg |-> aneg, M |-> BigSub(A, B)]
  ELSE [neg |-> bneg, M |-> BigSub(B, A)]

\* The double nearest to sum.M * 2^e with the sign of sum.
RoundedSum(sum, e) == RoundToDouble(sum.neg, sum.M, e, FALSE)

\* a + b.  An operand more than 64 binary places below the other leaves it
\* unchanged.
FAdd(a, b) ==
  IF a.m = <<>> THEN b
  ELSE IF b.m = <<>> THEN a
  ELSE IF a.e - b.e > 64 THEN a
  ELSE IF b.e - a.e > 64 THEN b
  ELSE RoundedSum(SignedSum(a.neg, BigShl(a.m, a.e - Min(a.e, b.e)),
                            b.neg, BigShl(b.m, b.e - Min(a.e, b.e))),
                  Min(a.e, b.e))

\* a - b.
FSub(a, b) == FAdd(a, IF b.m = <<>> THEN b ELSE [b EXCEPT !.neg = ~b.neg])

FMul(a, b) ==
  IF a.m = <<>> \/ b.m = <<>> THEN FZero
  ELSE RoundToDouble(a.neg # b.neg, BigMul(a.m, b.m), a.e + b.e, FALSE)

\* a / 2: exact.
FHalf(a) == IF a.m = <<>> THEN a ELSE [a EXCEPT !.e = @ - 1]

\* The double nearest to (neg ? -1 : 1) * (M / n) * 2^e for an integer
\* 0 < n <= 2^15.
RoundedQuotient(neg, M, n, e) ==
  RoundToDouble(neg, BigDivDigit(M, n), e, BigModDigit(M, n) # 0)

\* a / n for an integer 0 < n <= 2^15.
FDivInt(a, n) ==
  IF a.m = <<>> THEN FZero
  ELSE RoundedQuotient(a.neg, BigShl(a.m, 30), n, a.e - 30)

\* Long division by the mantissa bm: the next seven bits of a quotient,
\* floor(r / bm) for r < 128 * bm.
DivDigit(r, bm) ==
  CHOOSE k \in 0..127 : /\ BigCmp(BigMulDigit(bm, k), r) <= 0
                        /\ BigCmp(BigMulDigit(bm, k + 1), r) > 0

\* The quotient q so far with the seven bits k added, and what is left of
\* r, the remainder so far times 128.
DivStep(q, r, bm, k) ==
  [q |-> BigAdd(BigShl(q, 7), BigOfInt(k)), rem |-> BigSub(r, BigMulDigit(bm, k))]

DivNext(st, bm) ==
  DivStep(st.q, BigShl(st.rem, 7), bm, DivDigit(BigShl(st.rem, 7), bm))

\* n times seven more bits of the quotient st.rem / bm added to st.q, for
\* st.rem < bm.
RECURSIVE DivBits(_, _, _)
DivBits(st, bm, n) ==
  IF n = 0 THEN st
  ELSE DivNext(DivBits(st, bm, n - 1), bm)

\* The double nearest to (neg ? -1 : 1) * (st.q + s) * 2^e, with s in
\* (0, 1) when a remainder is left.
RoundedDivision(neg, st, e) == RoundToDouble(neg, st.q, e, st.rem # <<>>)

\* a / b for b # 0, by long division to 56 bits after the first.
FDiv(a, b) ==
  IF a.m = <<>> THEN FZero
  ELSE RoundedDivision(a.neg # b.neg,
                       DivBits(IF BigCmp(a.m, b.m) >= 0
                               THEN [q |-> <<1>>, rem |-> BigSub(a.m, b.m)]
                               ELSE [q |-> <<>>, rem |-> a.m], b.m, 8),
                       a.e - b.e - 56)

\* Math.round: the nearest integer, a tie going towards +Infinity.
MathRound(a) ==
  IF a.m = <<>> THEN 0
  ELSE IF a.e >= 0 THEN (IF a.neg THEN 0 - 1 ELSE 1) * BigToInt(BigShl(a.m, a.e))
  ELSE IF a.neg
  THEN 0 - (BigToInt(BigShr(a.m, 0 - a.e))
              + (IF BigBit(a.m, 0 - a.e - 1) = 1 /\ BigLowBits(a.m, 0 - a.e - 1)
                 THEN 1 ELSE 0))
  ELSE BigToInt(BigShr(a.m, 0 - a.e)) + BigBit(a.m, 0 - a.e - 1)

----------------------------------------------------------------------------
(* Numbers of the engine                                                   *)

\* The double of a decimal of h half-pence: the double nearest to h / 200,
\* as pence over 100 or, for an odd h, tenths of a penny over 1000.
DoubleOfDecimal(h) ==
  FDivInt(FromInt(IF h % 2 = 0 THEN h \div 2 ELSE 5 * h),
          IF h % 2 = 0 THEN 100 ELSE 1000)

\* A decimal literal, an amount the caller passes, or the result of
\* Math.round(x * 100) / 100, as a Num.
Lit(h) == [x |-> h, d |-> <<"lit", h>>]

\* a + b, a - b and a / 2 on Nums (a / 2 for an a of whole pence).
Plus(a, b) == [x |-> a.x + b.x, d |-> <<"add", a.d, b.d>>]
Minus(a, b) == [x |-> a.x - b.x, d |-> <<"sub", a.d, b.d>>]
Half(a) == [x |-> a.x \div 2, d |-> <<"half", a.d>>]

\* The double the operations d produce.
RECURSIVE Double(_)
Double(d) ==
  IF d[1] = "lit" THEN DoubleOfDecimal(d[2])
  ELSE IF d[1] = "add" THEN FAdd(Double(d[2]), Double(d[3]))
  ELSE IF d[1] = "sub" THEN FSub(Double(d[2]), Double(d[3]))
  ELSE FHalf(Double(d[2]))

\* a < b and a <= b on Nums.
Below(a, b) == IF a.x # b.x THEN a.x < b.x ELSE FLt(Double(a.d), Double(b.d))
AtMost(a, b) == IF a.x # b.x THEN a.x < b.x ELSE FLe(Double(a.d), Double(b.d))

\* Math.min and Math.max on Nums.
MathMin(a, b) == IF Below(b, a) THEN b ELSE a
MathMax(a, b) == IF Below(a, b) THEN b ELSE a

\* Math.round(d * 100) for a double d: a count of pence.
RoundedPence(d) == MathRound(FMul(d, FromInt(100)))

\* Math.round(x * 100) / 100 on a Num, in half-pence.
Round2(num) ==
  IF num.x % 2 = 0 THEN num.x ELSE Pence(RoundedPence(Double(num.d)))

\* The accumulator of a band walk: the number whole + hundredths / 100 of
\* half-pence (hundredths is not kept below 100).
NoTax == [whole |-> 0, hundredths |-> 0]

\* tax += amount * rate, for an amount >= 0 and a rate in percent.
TaxAdd(tax, amount, rate) ==
  [whole |-> tax.whole + (amount \div 100) * rate,
   hundredths |-> tax.hundredths + (amount % 100) * rate]

\* The accumulator is half-way between two pence.
TaxIsHalfway(tax) == (100 * (tax.whole % 2) + tax.hundredths) % 200 = 100

\* The whole penny nearest to the accumulator, in half-pence (the upper one
\* when it is half-way).
NearestPenny(tax) ==
  2 * ((tax.whole \div 2) + ((100 * (tax.whole % 2) + tax.hundredths + 100) \div 200))

\* Math.round(tax * 100) / 100 at the end of a band walk: tax is the
\* accumulator and double the double the walk leaves in it.
Round2Tax(tax, double) ==
  IF TaxIsHalfway(tax) THEN Pence(RoundedPence(double)) ELSE NearestPenny(tax)

----------------------------------------------------------------------------
(* Configuration: part_000 lines 288-315                                   *)

PERSONAL_ALLOWANCE == 12570
TAPER_THRESHOLD == 100000
TAPER_LIMIT == 125140

\* The limit of the last band of each table; every amount of the model is
\* below it, and arithmetic on it goes through InfSub.
Infinity == 2147483647

\* Infinity - x = Infinity; otherwise the difference.
InfSub(a, b) == IF a = Infinity THEN Infinity ELSE a - b

\* rate is in percent.
\* TAX_BANDS with the basic-rate band ending at 37,500.
TAX_BANDS_BasicTo37500 ==
  << [limit |-> GBP(37500), rate |-> 20, name |-> "Basic Rate"],
     [limit |-> GBP(125140), rate |-> 40, name |-> "Higher Rate"],
     [limit |-> Infinity, rate |-> 45, name |-> "Additional Rate"] >>

TAX_BANDS ==
  << [limit |-> GBP(37700),  rate |-> 20, name |-> "Basic Rate"],
     [limit |-> GBP(125140), rate |-> 40, name |-> "Higher Rate"],
     [limit |-> Infinity,    rate |-> 45, name |-> "Additional Rate"] >>

SCOTTISH_TAX_BANDS ==
  << [limit |-> GBP(2306),   rate |-> 19, name |-> "Starter Rate"],
     [limit |-> GBP(13991),  rate |-> 20, name |-> "Basic Rate"],
     [limit |-> GBP(31092),  rate |-> 21, name |-> "Intermediate Rate"],
     [limit |-> GBP(62430),  rate |-> 42, name |-> "Higher Rate"],
     [limit |-> GBP(125140), rate |-> 45, name |-> "Advanced Rate"],
     [limit |-> Infinity,    rate |-> 48, name |-> "Top Rate"] >>

\* calculateTax: options.useScottishBands ? SCOTTISH_TAX_BANDS : TAX_BANDS
BandsFor(useScottish) == IF useScottish THEN SCOTTISH_TAX_BANDS ELSE TAX_BANDS

isAdjustmentTaxableIncome(type) ==
  type \in {"untaxed_interest", "benefit_in_kind", "state_benefits"}

----------------------------------------------------------------------------
(* Personal allowance: part_000 lines 906-918                              *)

\* TaperFormula with the reduction not halved: one pound of allowance lost
\* for every pound over the threshold.
TaperFormula_NotHalved(totalIncome) ==
  LET reduction == Minus(totalIncome, Lit(GBP(TAPER_THRESHOLD)))
  IN  MathMax(Lit(0), Minus(Lit(GBP(PERSONAL_ALLOWANCE)), reduction))

\* const reduction = (totalIncome - TAPER_THRESHOLD) / 2;
\* return Math.max(0, PERSONAL_ALLOWANCE - reduction);
\* The exact half is a whole number of half-pence: totalIncome is a sum of
\* amounts of whole pence.
TaperFormula(totalIncome) ==
  LET reduction == Half(Minus(totalIncome, Lit(GBP(TAPER_THRESHOLD))))
  IN  MathMax(Lit(0), Minus(Lit(GBP(PERSONAL_ALLOWANCE)), reduction))

\* calculatePersonalAllowance with the taper forgotten.
calculatePersonalAllowance_NoTaper(totalIncome) ==
  IF AtMost(Lit(GBP(TAPER_LIMIT)), totalIncome) THEN Lit(0)
  ELSE Lit(GBP(PERSONAL_ALLOWANCE))

\* totalIncome is a Num and so is the allowance.
calculatePersonalAllowance(totalIncome) ==
  IF AtMost(totalIncome, Lit(GBP(TAPER_THRESHOLD))) THEN Lit(GBP(PERSONAL_ALLOWANCE))
  ELSE IF AtMost(Lit(GBP(TAPER_LIMIT)), totalIncome) THEN Lit(0)
  ELSE TaperFormula(totalIncome)

----------------------------------------------------------------------------
(* Progressive band engine: part_000 lines 923-1024                        *)
(* Each loop is walked on the exact values (amounts in half-pence, the     *)
(* accumulator of TaxAdd) and, when the rounding of its accumulator needs  *)
(* it, on the doubles.                                                     *)

\* band.limit and band.rate as the doubles of the table's literals.
LimitDouble(band) == DoubleOfDecimal(band.limit)
RateDouble(band) == FDivInt(FromInt(band.rate), 100)

\* TaxDueLoop with previousLimit never advanced: every band is as wide as
\* its limit.
RECURSIVE TaxDueLoop_WidthIsLimit(_, _, _, _, _)
TaxDueLoop_WidthIsLimit(bands, k, tax, remainingIncome, previousLimit) ==
  IF k > Len(bands) THEN tax
  ELSE LET band == bands[k]
           bandWidth == band.limit
           incomeInBand == Min(remainingIncome, bandWidth)
           tax2 == IF incomeInBand > 0 THEN TaxAdd(tax, incomeInBand, band.rate) ELSE tax
           rem2 == IF incomeInBand > 0 THEN remainingIncome - incomeInBand
                                       ELSE remainingIncome
       IN  IF rem2 <= 0 THEN tax2
           ELSE TaxDueLoop_WidthIsLimit(bands, k + 1, tax2, rem2, band.limit)

\* The loop of calculateTaxDue from band k on, on exact values; the result
\* is the accumulator tax when the loop ends (break, or the table is
\* exhausted).
RECURSIVE TaxDueLoop(_, _, _, _, _)
TaxDueLoop(bands, k, tax, remainingIncome, previousLimit) ==
  IF k > Len(bands) THEN tax
  ELSE LET band == bands[k]
           bandWidth == InfSub(band.limit, previousLimit)
           incomeInBand == Min(remainingIncome, bandWidth)
           tax2 == IF incomeInBand > 0 THEN TaxAdd(tax, incomeInBand, band.rate) ELSE tax
           rem2 == IF incomeInBand > 0 THEN remainingIncome - incomeInBand
                                       ELSE remainingIncome
       IN  IF rem2 <= 0 THEN tax2
           ELSE TaxDueLoop(bands, k + 1, tax2, rem2, band.limit)

\* The same loop on doubles: tax, remainingIncome and previousLimit are
\* doubles.  Math.min(remainingIncome, Infinity - previousLimit) is
\* remainingIncome.
RECURSIVE TaxDueLoopDouble(_, _, _, _, _)

\* After band k: break when nothing remains, else on to the next band.
TaxDueAfterBandDouble(bands, k, tax, remainingIncome) ==
  IF FLe(remainingIncome, FZero) THEN tax
  ELSE TaxDueLoopDouble(bands, k + 1, tax, remainingIncome,
                        IF bands[k].limit = Infinity THEN FZero
                        ELSE LimitDouble(bands[k]))

\* Band k, given its incomeInBand.
TaxDueInBandDouble(bands, k, tax, remainingIncome, incomeInBand) ==
  IF FLt(FZero, incomeInBand)
  THEN TaxDueAfterBandDouble(bands, k,
                             FAdd(tax, FMul(incomeInBand, RateDouble(bands[k]))),
                             FSub(remainingIncome, incomeInBand))
  ELSE TaxDueAfterBandDouble(bands, k, tax, remainingIncome)

TaxDueLoopDouble(bands, k, tax, remainingIncome, previousLimit) ==
  IF k > Len(bands) THEN tax
  ELSE TaxDueInBandDouble(bands, k, tax, remainingIncome,
                          IF bands[k].limit = Infinity THEN remainingIncome
                          ELSE FMin(remainingIncome,
                                    FSub(LimitDouble(bands[k]), previousLimit)))

\* calculateTaxDue charging the whole income at the rate of the band it
\* reaches (a slab tax) instead of band by band.
calculateTaxDue_Slab(taxableIncome, bands) ==
  IF taxableIncome.x <= 0 THEN 0
  ELSE LET reached == CHOOSE k \in 1..Len(bands) :
                        /\ (k = Len(bands) \/ taxableIncome.x <= bands[k].limit)
                        /\ \A j \in 1..(k - 1) : taxableIncome.x > bands[j].limit
       IN  NearestPenny(TaxAdd(NoTax, taxableIncome.x, bands[reached].rate))

\* taxableIncome is a Num; the result is a decimal of two places.
calculateTaxDue(taxableIncome, bands) ==
  IF AtMost(taxableIncome, Lit(0)) THEN 0
  ELSE Round2Tax(TaxDueLoop(bands, 1, NoTax, taxableIncome.x, 0),
                 TaxDueLoopDouble(bands, 1, FZero, Double(taxableIncome.d), FZero))

\* The loop of calculateMarginalRate from band k on.
RECURSIVE MarginalRateLoop(_, _, _)
MarginalRateLoop(bands, k, taxableIncome) ==
  IF k > Len(bands) THEN bands[Len(bands)].rate
  ELSE IF bands[k].limit = Infinity \/ Below(taxableIncome, Lit(bands[k].limit))
       THEN bands[k].rate
  ELSE MarginalRateLoop(bands, k + 1, taxableIncome)

calculateMarginalRate(taxableIncome, bands) ==
  IF Below(taxableIncome, Lit(0)) THEN 0 ELSE MarginalRateLoop(bands, 1, taxableIncome)

\* Both incomes are Nums; taxWith and taxWithout are decimals of two
\* places.
calculateIncrementalTax(existingTaxableIncome, additionalIncome, bands) ==
  IF AtMost(additionalIncome, Lit(0)) THEN 0
  ELSE LET taxWithout == calculateTaxDue(existingTaxableIncome, bands)
           taxWith == calculateTaxDue(Plus(existingTaxableIncome, additionalIncome), bands)
       IN  Round2(Minus(Lit(taxWith), Lit(taxWithout)))

\* The loop of calculateTaxForSlice from band k on, on exact values.
RECURSIVE SliceLoop(_, _, _, _, _)
SliceLoop(bands, k, tax, remaining, currentPosition) ==
  IF k > Len(bands) \/ remaining <= 0 THEN tax
  ELSE LET bandStart == currentPosition
           bandEnd == bands[k].limit
           roomInBand == Max(0, InfSub(bandEnd, bandStart))
           incomeInThisBand == Min(remaining, roomInBand)
           tax2 == IF incomeInThisBand > 0
                   THEN TaxAdd(tax, incomeInThisBand, bands[k].rate) ELSE tax
           rem2 == IF incomeInThisBand > 0
                   THEN remaining - incomeInThisBand ELSE remaining
           pos2 == IF incomeInThisBand > 0
                   THEN currentPosition + incomeInThisBand ELSE currentPosition
           pos3 == IF pos2 >= bandEnd THEN bandEnd ELSE pos2
       IN  SliceLoop(bands, k + 1, tax2, rem2, pos3)

\* The same loop on doubles: tax, remaining and currentPosition are
\* doubles.  Against the Infinity limit the room is Infinity and the
\* position never reaches the band's end.
RECURSIVE SliceLoopDouble(_, _, _, _, _)

\* After band k: the position stops at the band's end.
SliceAfterBandDouble(bands, k, tax, remaining, currentPosition) ==
  SliceLoopDouble(bands, k + 1, tax, remaining,
                  IF /\ bands[k].limit # Infinity
                     /\ FLe(LimitDouble(bands[k]), currentPosition)
                  THEN LimitDouble(bands[k]) ELSE currentPosition)

\* Band k, given its incomeInThisBand.
SliceInBandDouble(bands, k, tax, remaining, currentPosition, incomeInThisBand) ==
  IF FLt(FZero, incomeInThisBand)
  THEN SliceAfterBandDouble(bands, k,
                            FAdd(tax, FMul(incomeInThisBand, RateDouble(bands[k]))),
                            FSub(remaining, incomeInThisBand),
                            FAdd(currentPosition, incomeInThisBand))
  ELSE SliceAfterBandDouble(bands, k, tax, remaining, currentPosition)

SliceLoopDouble(bands, k, tax, remaining, currentPosition) ==
  IF k > Len(bands) \/ FLe(remaining, FZero) THEN tax
  ELSE SliceInBandDouble(bands, k, tax, remaining, currentPosition,
                         IF bands[k].limit = Infinity THEN remaining
                         ELSE FMin(remaining,
                                   FMax(FZero, FSub(LimitDouble(bands[k]),
                                                    currentPosition))))

\* incomeAmount and startingPosition are Nums; the result is a decimal of
\* two places.
calculateTaxForSlice(incomeAmount, startingPosition, bands) ==
  IF AtMost(incomeAmount, Lit(0)) THEN 0
  ELSE Round2Tax(SliceLoop(bands, 1, NoTax, incomeAmount.x, startingPosition.x),
                 SliceLoopDouble(bands, 1, FZero, Double(incomeAmount.d),
                                 Double(startingPosition.d)))

----------------------------------------------------------------------------
(* Dates: part_000 lines 404-452                                           *)
(* A Date is [y, m, d, min]: what its getters give in the time zone of the *)
(* process, the local year, 0-indexed month (getMonth), day of the month   *)
(* and minutes after midnight.  Dates parsed by parseDate from YYYY-MM-DD  *)
(* strings and built by new Date(y, m, d) are at local midnight; a string  *)
(* with a time, and options.today, carry a local time of day.  Times are   *)
(* whole minutes.  getTime() counts from 1 January 1970 UTC, so it depends *)
(* on the zone: TZ is the zone the process runs in, and a local day on     *)
(* which the clocks change is 23 or 25 hours long.                         *)

\* The time zone of the process (the TZ of its environment); no function
\* of the engine changes it.
VARIABLE TZ

DateOf(y, m, d) == [y |-> y, m |-> m, d |-> d, min |-> 0]

\* The same day at a time of day, a count of minutes after midnight.
AtTime(date, min) == [date EXCEPT !.min = min]
MinutesPerDay == 24 * 60

IsLeap(y) == (y % 4 = 0 /\ y % 100 # 0) \/ y % 400 = 0

DaysInMonth(y, m) ==
  IF m = 1 THEN (IF IsLeap(y) THEN 29 ELSE 28)
  ELSE IF m \in {3, 5, 8, 10} THEN 30 ELSE 31

\* Days of a common year before the first of each month.
DaysBeforeMonthOfCommonYear == <<0, 31, 59, 90, 120, 151, 181, 212, 243, 273, 304, 334>>

DaysBeforeMonth(y, m) ==
  DaysBeforeMonthOfCommonYear[m + 1] + (IF m > 1 /\ IsLeap(y) THEN 1 ELSE 0)

TAX_YEAR_START == DateOf(2025, 3, 6)
TAX_YEAR_END == DateOf(2026, 3, 5)

\* The exported day count of the tax year (part_000 line 9); no function
\* reads it.
TAX_YEAR_DAYS == 366

\* Leap years among the years 1..y of the proleptic Gregorian calendar.
LeapYearsUpTo(y) == (y \div 4) - (y \div 100) + (y \div 400)

\* Days from 1 January 1970 to 1 January of year y, negative before 1970.
DaysBeforeYear(y) ==
  365 * (y - 1970) + LeapYearsUpTo(y - 1) - LeapYearsUpTo(1969)

\* Whole days from 1 January 1970 to the date's midnight.
DayNumber(date) == DaysBeforeYear(date.y) + DaysBeforeMonth(date.y, date.m) + date.d - 1

\* Time zones a process runs in: UTC, a zone on UTC in winter with summer
\* time, a zone west of UTC with summer time, and a zone east of UTC
\* without.
Zones == { "UTC", "Europe/London", "America/New_York", "Asia/Tokyo" }

\* Minutes the zone's clocks are ahead of UTC, in winter and in summer.
StandardOffset(zone) ==
  IF zone = "America/New_York" THEN 0 - 5 * 60
  ELSE IF zone = "Asia/Tokyo" THEN 9 * 60
  ELSE 0

HasSummerTime(zone) == zone \in { "Europe/London", "America/New_York" }

SummerOffset(zone) ==
  IF HasSummerTime(zone) THEN StandardOffset(zone) + 60 ELSE StandardOffset(zone)

\* The day of the week of a day number, 0 for Sunday (1 January 1970 was a
\* Thursday), and the Sundays nearest to a day.
Weekday(dayNumber) == (dayNumber + 4) % 7
SundayOnOrBefore(dayNumber) == dayNumber - Weekday(dayNumber)
SundayOnOrAfter(dayNumber) == dayNumber + ((7 - Weekday(dayNumber)) % 7)

\* The UTC minute at which summer time begins and ends in year y.
\* Europe/London: 01:00 UTC on the last Sundays of March and October.
\* America/New_York: 02:00 local time on the second Sunday of March
\* (07:00 UTC) and on the first Sunday of November (06:00 UTC).
SummerTimeStart(zone, y) ==
  IF zone = "Europe/London"
  THEN MinutesPerDay * SundayOnOrBefore(DayNumber(DateOf(y, 2, 31))) + 60
  ELSE MinutesPerDay * (SundayOnOrAfter(DayNumber(DateOf(y, 2, 1))) + 7) + 7 * 60

SummerTimeEnd(zone, y) ==
  IF zone = "Europe/London"
  THEN MinutesPerDay * SundayOnOrBefore(DayNumber(DateOf(y, 9, 31))) + 60
  ELSE MinutesPerDay * SundayOnOrAfter(DayNumber(DateOf(y, 10, 1))) + 6 * 60

\* Summer time is in force in the zone at UTC minute t of year y.
InSummerTime(zone, y, t) ==
  /\ HasSummerTime(zone)
  /\ SummerTimeStart(zone, y) <= t
  /\ t < SummerTimeEnd(zone, y)

\* Minutes from local midnight of 1 January 1970 to the Date's local time.
LocalTimeOf(date) == MinutesPerDay * DayNumber(date) + date.min

\* date.getTimezoneOffset(), negated: the minutes the local clock is ahead
\* of UTC at the local time a Date shows.  The zones with summer time keep
\* it on every day from April to September and on none from December to
\* February.  In a month with a clock change the local time is on the
\* summer clock when that names a minute of summer time, and on the winter
\* clock otherwise: a local time the clocks show twice is the earlier of the
\* two, and one they skip is read on the clock in force before the change.
OffsetOfLocalTime(date) ==
  IF date.m \in {0, 1, 11} THEN StandardOffset(TZ)
  ELSE IF date.m \in 3..8 THEN SummerOffset(TZ)
  ELSE IF InSummerTime(TZ, date.y, LocalTimeOf(date) - SummerOffset(TZ))
       THEN SummerOffset(TZ)
       ELSE StandardOffset(TZ)

\* date.getTime() in minutes; the engine's <, <=, > on Dates compare it.
TimeOf(date) == LocalTimeOf(date) - OffsetOfLocalTime(date)

\* Math.round(ms / msPerDay) of a difference of two times: the nearest
\* whole day, half a day going towards +Infinity.
RoundedDays(minutes) == (2 * minutes + MinutesPerDay) \div (2 * MinutesPerDay)

\* Math.round((end - start) / msPerDay) + 1.
daysBetween(start, end) == RoundedDays(TimeOf(end) - TimeOf(start)) + 1

\* The day before a day, at midnight.
PreviousDay(date) ==
  IF date.d > 1 THEN DateOf(date.y, date.m, date.d - 1)
  ELSE IF date.m > 0 THEN DateOf(date.y, date.m - 1, DaysInMonth(date.y, date.m - 1))
  ELSE DateOf(date.y - 1, 11, 31)

\* The zone's offset at UTC midnight of a day.
OffsetAtUTCMidnight(day) ==
  IF InSummerTime(TZ, day.y, MinutesPerDay * DayNumber(day))
  THEN SummerOffset(TZ) ELSE StandardOffset(TZ)

\* new Date('YYYY-MM-DD'): a date-only string is UTC midnight of that day,
\* which is a time of that day east of UTC and of the day before west of
\* it.
DateOfISOString(day) ==
  IF OffsetAtUTCMidnight(day) < 0
  THEN AtTime(PreviousDay(day), MinutesPerDay + OffsetAtUTCMidnight(day))
  ELSE AtTime(day, OffsetAtUTCMidnight(day))

----------------------------------------------------------------------------
(* PAYE periods: part_000 lines 471-656                                    *)

\* new Date(year, month, day) for a day that exists in every month: a month
\* outside 0..11 carries into the year.
NewDate(year, month, day) == DateOf(year + (month \div 12), month % 12, day)

\* getPAYEPeriod numbering every period as if it started in the tax year's
\* first calendar year.
getPAYEPeriod_NoYearWrap(date, taxYearStart) ==
  LET periodStartMonth == IF date.d >= 6 THEN date.m
                          ELSE IF date.m = 0 THEN 11 ELSE date.m - 1
      periodStartYear == IF date.d >= 6 THEN date.y
                         ELSE IF date.m = 0 THEN date.y - 1 ELSE date.y
      raw == periodStartMonth - taxYearStart.m + 1
      periodNumber == Max(1, Min(12, raw))
      startDate == DateOf(periodStartYear, periodStartMonth, 6)
      endMonth == IF periodStartMonth + 1 > 11 THEN 0 ELSE periodStartMonth + 1
      endYear == IF periodStartMonth + 1 > 11 THEN periodStartYear + 1
                 ELSE periodStartYear
      endDate == DateOf(endYear, endMonth, 5)
  IN  [periodNumber |-> periodNumber, startDate |-> startDate,
       endDate |-> endDate, daysInPeriod |-> daysBetween(startDate, endDate)]

getPAYEPeriod(date, taxYearStart) ==
  LET periodStartMonth == IF date.d >= 6 THEN date.m
                          ELSE IF date.m = 0 THEN 11 ELSE date.m - 1
      periodStartYear == IF date.d >= 6 THEN date.y
                         ELSE IF date.m = 0 THEN date.y - 1 ELSE date.y
      raw == IF periodStartYear = taxYearStart.y
             THEN periodStartMonth - taxYearStart.m + 1
             ELSE periodStartMonth + 12 - taxYearStart.m + 1
      periodNumber == Max(1, Min(12, raw))
      startDate == DateOf(periodStartYear, periodStartMonth, 6)
      endMonth == IF periodStartMonth + 1 > 11 THEN 0 ELSE periodStartMonth + 1
      endYear == IF periodStartMonth + 1 > 11 THEN periodStartYear + 1
                 ELSE periodStartYear
      endDate == DateOf(endYear, endMonth, 5)
  IN  [periodNumber |-> periodNumber, startDate |-> startDate,
       endDate |-> endDate, daysInPeriod |-> daysBetween(startDate, endDate)]

\* getPAYEPeriodDates keeping every period in the tax year's first calendar
\* year.
getPAYEPeriodDates_NoYearCarry(periodNumber, taxYearStart) ==
  LET month0 == taxYearStart.m + periodNumber - 1
      startMonth == IF month0 > 11 THEN month0 - 12 ELSE month0
      startYear == taxYearStart.y
      startDate == NewDate(startYear, startMonth, 6)
      endMonth == IF startMonth + 1 > 11 THEN 0 ELSE startMonth + 1
      endYear == IF startMonth + 1 > 11 THEN startYear + 1 ELSE startYear
      endDate == NewDate(endYear, endMonth, 5)
  IN  [startDate |-> startDate, endDate |-> endDate,
       daysInPeriod |-> daysBetween(startDate, endDate)]

getPAYEPeriodDates(periodNumber, taxYearStart) ==
  LET month0 == taxYearStart.m + periodNumber - 1
      startMonth == IF month0 > 11 THEN month0 - 12 ELSE month0
      startYear == IF month0 > 11 THEN taxYearStart.y + 1 ELSE taxYearStart.y
      startDate == NewDate(startYear, startMonth, 6)
      endMonth == IF startMonth + 1 > 11 THEN 0 ELSE startMonth + 1
      endYear == IF startMonth + 1 > 11 THEN startYear + 1 ELSE startYear
      endDate == NewDate(endYear, endMonth, 5)
  IN  [startDate |-> startDate, endDate |-> endDate,
       daysInPeriod |-> daysBetween(startDate, endDate)]

\* Clamp of a start date to the tax-year start.
ClampStart(startDate, taxYearStart) ==
  IF TimeOf(startDate) < TimeOf(taxYearStart) THEN taxYearStart ELSE startDate

\* A count of periods is a fraction of days: [num, den] stands for
\* num / den periods, den being the length of the start period in days.
calculateEquivalentPeriods(startDate, asOfDate, taxYearStart) ==
  LET effectiveStart == ClampStart(startDate, taxYearStart)
      startPeriod == getPAYEPeriod(effectiveStart, taxYearStart)
      asOfPeriod == getPAYEPeriod(asOfDate, taxYearStart)
      den == startPeriod.daysInPeriod
      firstNum == IF effectiveStart.d = 6 THEN den
                  ELSE IF effectiveStart.d > 6
                       THEN daysBetween(effectiveStart, startPeriod.endDate)
                       ELSE den
      fullPeriodsAfter ==
        IF asOfPeriod.periodNumber > startPeriod.periodNumber
        THEN asOfPeriod.periodNumber - startPeriod.periodNumber
        ELSE 0
  IN  [num |-> firstNum + fullPeriodsAfter * den, den |-> den,
       firstNum |-> firstNum, fullPeriodsAfter |-> fullPeriodsAfter,
       startPeriod |-> startPeriod]

calculateTotalPeriods(startDate, endDate, taxYearStart) ==
  LET effectiveStart == ClampStart(startDate, taxYearStart)
      effectiveEnd == IF TimeOf(endDate) > TimeOf(TAX_YEAR_END)
                      THEN TAX_YEAR_END ELSE endDate
      startPeriod == getPAYEPeriod(effectiveStart, taxYearStart)
      den == startPeriod.daysInPeriod
      firstNum == daysBetween(effectiveStart, startPeriod.endDate)
      endPeriod == getPAYEPeriod(effectiveEnd, taxYearStart)
      fullPeriodsAfter == endPeriod.periodNumber - startPeriod.periodNumber
  IN  [num |-> firstNum + fullPeriodsAfter * den, den |-> den,
       firstNum |-> firstNum, fullPeriodsAfter |-> fullPeriodsAfter]

getAsOfDateForMonthsPaid(monthsPaid, startDate, today, taxYearStart) ==
  LET effectiveStart == ClampStart(startDate, taxYearStart)
      startPeriod == getPAYEPeriod(effectiveStart, taxYearStart)
      targetPeriodNumber == startPeriod.periodNumber + monthsPaid - 1
      endDate == getPAYEPeriodDates(targetPeriodNumber, taxYearStart).endDate
  IN  IF TimeOf(endDate) < TimeOf(today) THEN endDate ELSE today

----------------------------------------------------------------------------
(* Income projector: part_000 lines 825-901                                *)

\* The whole penny nearest to amount * n / d (the upper one when half-way),
\* for an amount of whole pence held in half-pence and d > 0; the quotient
\* is taken in two parts to keep the intermediate product small.
RoundScaled(amount, n, d) ==
  LET pence == amount \div 2
      q == pence \div d
      r == pence % d
  IN  2 * (q * n + ((2 * r * n + d) \div (2 * d)))

\* amount * n / d is half-way between two pence.
ScaledIsHalfway(amount, n, d) ==
  (2 * ((amount \div 2) % d) * n + d) % (2 * d) = 0

\* The double of a count of periods: firstPeriodFraction + fullPeriodsAfter,
\* with firstPeriodFraction = firstNum / den.
PeriodsDouble(p) ==
  FAdd(FDivInt(FromInt(p.firstNum), p.den), FromInt(p.fullPeriodsAfter))

\* periodsWorked = monthsPaid, and the floor 0.1 of Math.max(0.1, ...), as
\* counts of periods.
ExplicitPeriods(monthsPaid) ==
  [num |-> monthsPaid, den |-> 1, firstNum |-> monthsPaid, fullPeriodsAfter |-> 0]
TenthOfAPeriod == [num |-> 1, den |-> 10, firstNum |-> 1, fullPeriodsAfter |-> 0]

\* monthlyRate = incomeToDate / periodsWorked;
\* projected = monthlyRate * totalPeriods;
\* projected = Math.round(projected * 100) / 100
\* for periodsWorked > 0.  The exact ratio decides the penny unless it is
\* half-way, and then the doubles do.
ProjectByPeriods(incomeToDate, periodsWorked, totalPeriods) ==
  LET n == totalPeriods.num * periodsWorked.den
      d == periodsWorked.num * totalPeriods.den
  IN  IF ScaledIsHalfway(incomeToDate, n, d)
      THEN LET monthlyRate == FDiv(DoubleOfDecimal(incomeToDate),
                                   PeriodsDouble(periodsWorked))
           IN  Pence(RoundedPence(FMul(monthlyRate, PeriodsDouble(totalPeriods))))
      ELSE RoundScaled(incomeToDate, n, d)

\* An optional field is <<>> (undefined) or <<value>>.
IsSet(opt) == opt # <<>>
Val(opt) == opt[1]

\* calculateProjectedIncome without the early return for an as-of date not
\* after the start date.
calculateProjectedIncome_NoStartGuard(incomeToDate, startDate, monthsPaid, today, endDate) ==
  LET start == ClampStart(startDate, TAX_YEAR_START)
      total == calculateTotalPeriods(start, endDate, TAX_YEAR_START)
  IN  IF IsSet(monthsPaid) /\ Val(monthsPaid) > 0
      THEN ProjectByPeriods(incomeToDate, ExplicitPeriods(Val(monthsPaid)), total)
      ELSE LET worked == calculateEquivalentPeriods(start, today, TAX_YEAR_START)
           IN  IF 10 * worked.num < worked.den
               THEN ProjectByPeriods(incomeToDate, TenthOfAPeriod, total)
               ELSE ProjectByPeriods(incomeToDate, worked, total)

\* The projected field of calculateProjectedIncome's result.
calculateProjectedIncome(incomeToDate, startDate, monthsPaid, today, endDate) ==
  LET start == ClampStart(startDate, TAX_YEAR_START)
      total == calculateTotalPeriods(start, endDate, TAX_YEAR_START)
  IN  IF IsSet(monthsPaid) /\ Val(monthsPaid) > 0
      THEN \* periodsWorked = monthsPaid
           ProjectByPeriods(incomeToDate, ExplicitPeriods(Val(monthsPaid)), total)
      ELSE IF TimeOf(today) <= TimeOf(start)
           THEN incomeToDate
           ELSE LET worked == calculateEquivalentPeriods(start, today, TAX_YEAR_START)
                IN  \* Math.max(0.1, equivalentPeriods): worked.num / worked.den
                    \* against 1 / 10 (equal fractions are equal doubles)
                    IF 10 * worked.num < worked.den
                    THEN ProjectByPeriods(incomeToDate, TenthOfAPeriod, total)
                    ELSE ProjectByPeriods(incomeToDate, worked, total)

\* The day-based projector of calculationLogic.ts (lines 117-186).  It
\* projects at the daily rate over the days from the start date to the end
\* of the tax year; the start date is not clamped.  The start date is a
\* date-only string and the file's TAX_YEAR_END is built from one, so both
\* are UTC midnights; today and the last day of the previous month are
\* local times.

\* new Date(year, month, 0): the last day of the month before.
LastDayOfPreviousMonth(date) ==
  IF date.m = 0 THEN DateOf(date.y - 1, 11, DaysInMonth(date.y - 1, 11))
  ELSE DateOf(date.y, date.m - 1, DaysInMonth(date.y, date.m - 1))

MIN_DAYS_FOR_PROJECTION == 7

\* dailyRate * daysInYear, and the projection over weeks it is capped by
\* when few days were worked, in doubles.
DailyProjectionDouble(incomeToDate, daysWorked, daysInYear) ==
  FMul(FDivInt(DoubleOfDecimal(incomeToDate), daysWorked), FromInt(daysInYear))

ConservativeProjectionDouble(incomeToDate, daysWorked, daysInYear) ==
  LET weeksWorked == FDivInt(FromInt(daysWorked), 7)
      weeklyRate == FDiv(DoubleOfDecimal(incomeToDate), weeksWorked)
      weeksRemaining == FDivInt(FromInt(daysInYear), 7)
  IN  FMul(weeklyRate, weeksRemaining)

\* The result {projected, daysWorked, daysInYear}.  Both projections are
\* incomeToDate * daysInYear / daysWorked exactly (the weeks are the days
\* over 7 on both sides): the exact ratio decides the penny unless it is
\* half-way, and then the doubles do.
calculateProjectedIncomeByDays(incomeToDate, startDate, includeCurrentMonth, today) ==
  LET start == DateOfISOString(startDate)
      firstAsOfDate == IF includeCurrentMonth THEN today
                       ELSE LastDayOfPreviousMonth(today)
      daysInYear == daysBetween(start, DateOfISOString(TAX_YEAR_END))
  IN  IF TimeOf(firstAsOfDate) < TimeOf(start) /\ TimeOf(today) <= TimeOf(start)
      THEN [projected |-> incomeToDate, daysWorked |-> 1,
            daysInYear |-> Max(1, daysInYear)]
      ELSE LET asOfDate == IF TimeOf(firstAsOfDate) < TimeOf(start) THEN today
                           ELSE firstAsOfDate
               daysWorked == Max(1, daysBetween(start, asOfDate))
               daily == DailyProjectionDouble(incomeToDate, daysWorked, daysInYear)
               projected ==
                 IF daysWorked < MIN_DAYS_FOR_PROJECTION /\ incomeToDate > 0
                 THEN FMin(daily, ConservativeProjectionDouble(incomeToDate,
                                                               daysWorked, daysInYear))
                 ELSE daily
           IN  [projected |-> IF ScaledIsHalfway(incomeToDate, daysInYear, daysWorked)
                              THEN Pence(RoundedPence(projected))
                              ELSE RoundScaled(incomeToDate, daysInYear, daysWorked),
                daysWorked |-> daysWorked, daysInYear |-> daysInYear]

\* calculateTax, step 1: the income a source contributes.
FinalIncome(source, today) ==
  IF source.isRegular
  THEN IF IsSet(source.projectedIncome) THEN Val(source.projectedIncome)
       ELSE calculateProjectedIncome(source.incomeToDate, source.startDate,
                                     source.monthsPaid, today, source.endDate)
  ELSE source.incomeToDate

----------------------------------------------------------------------------
(* Sequential allocator: part_000 lines 1030-1092                          *)

\* The details entry of one source; the six amounts are Nums.
SourceDetail(income, paForThisSource, taxableIncome, taxDue, taxPaid, notes) ==
  [income |-> Round2(income),
   paUsed |-> Round2(paForThisSource),
   taxableIncome |-> Round2(taxableIncome),
   taxDue |-> Round2(taxDue),
   taxPaid |-> Round2(taxPaid),
   difference |-> Round2(Minus(taxPaid, taxDue)),
   notes |-> notes]

\* Step 4 of the loop: the tax paid of a source and the note on it.
TaxPaidOf(source, taxDue) ==
  IF IsSet(source.taxPaid) THEN Val(source.taxPaid)
  ELSE IF source.isRegular THEN taxDue
  ELSE 0

NotesOf(source) ==
  IF IsSet(source.taxPaid)
  THEN (IF source.isRegular THEN "User override" ELSE "Actual tax deducted")
  ELSE IF source.isRegular THEN "Balanced PAYE (ongoing)"
  ELSE "No tax information provided"

\* AllocateStep with taxablePosition set to the source's taxable income
\* instead of advanced by it.
AllocateStep_PositionAssigned(acc, source, income, taxBands) ==
  LET paForThisSource == MathMin(acc.paRemaining, Lit(income))
      taxableIncome == Minus(Lit(income), paForThisSource)
      taxDue == calculateTaxForSlice(taxableIncome, acc.taxablePosition, taxBands)
  IN  [paRemaining |-> Minus(acc.paRemaining, paForThisSource),
       taxablePosition |-> taxableIncome,
       details |-> Append(acc.details,
                     SourceDetail(Lit(income), paForThisSource, taxableIncome,
                                  Lit(taxDue), Lit(TaxPaidOf(source, taxDue)),
                                  NotesOf(source)))]

\* One iteration of allocateTaxSequentially's loop.  acc holds the loop's
\* running paRemaining and taxablePosition (Nums) and details; income is
\* projectedIncomes[i], a decimal of two places.
AllocateStep(acc, source, income, taxBands) ==
  LET paForThisSource == MathMin(acc.paRemaining, Lit(income))
      taxableIncome == Minus(Lit(income), paForThisSource)
      taxDue == calculateTaxForSlice(taxableIncome, acc.taxablePosition, taxBands)
  IN  [paRemaining |-> Minus(acc.paRemaining, paForThisSource),
       taxablePosition |-> Plus(acc.taxablePosition, taxableIncome),
       details |-> Append(acc.details,
                     SourceDetail(Lit(income), paForThisSource, taxableIncome,
                                  Lit(taxDue), Lit(TaxPaidOf(source, taxDue)),
                                  NotesOf(source)))]

----------------------------------------------------------------------------
(* calculateTax, the steps of its folds: part_000 lines 1102-1348          *)

\* Step 1: totalIncome += finalIncome, on the Num totalIncome.
AccumulateIncome(totalIncome, finalIncome) == Plus(totalIncome, Lit(finalIncome))

\* Step 4: deductions.reduce((sum, d) => sum + d.amount, 0), from item k on
\* with the running sum.
RECURSIVE SumAmounts(_, _, _)
SumAmounts(items, k, sum) ==
  IF k > Len(items) THEN sum
  ELSE SumAmounts(items, k + 1, Plus(sum, Lit(items[k].amount)))

\* TaxableAfterDeductions without the floor at 0.
TaxableAfterDeductions_NoFloor(taxableBefore, totalDeductions) ==
  Minus(taxableBefore, totalDeductions)

\* Step 4: Math.max(0, taxableIncomeBeforeDeductions - totalDeductions).
TaxableAfterDeductions(taxableBefore, totalDeductions) ==
  MathMax(Lit(0), Minus(taxableBefore, totalDeductions))

\* Step 6: one iteration of the loop over adjustments.  acc holds the running
\* totalAdjustmentTax, totalAdditionalTaxableIncome and currentTaxableIncome,
\* all Nums.
AdjustStep(acc, adjustment, taxBands) ==
  IF isAdjustmentTaxableIncome(adjustment.type)
  THEN LET incrementalTax ==
             calculateIncrementalTax(acc.currentTaxableIncome,
                                     Lit(adjustment.amount), taxBands)
       IN  [totalAdjustmentTax |-> Plus(acc.totalAdjustmentTax, Lit(incrementalTax)),
            totalAdditionalTaxableIncome |->
              Plus(acc.totalAdditionalTaxableIncome, Lit(adjustment.amount)),
            currentTaxableIncome |->
              Plus(acc.currentTaxableIncome, Lit(adjustment.amount))]
  ELSE [totalAdjustmentTax |-> Plus(acc.totalAdjustmentTax, Lit(adjustment.amount)),
        totalAdditionalTaxableIncome |-> acc.totalAdditionalTaxableIncome,
        currentTaxableIncome |-> acc.currentTaxableIncome]

\* The Numbers that are not finite.
NotFinite(name) == [x |-> 0, d |-> <<"nonfinite", name>>]
NonFiniteNumbers == { NotFinite("Infinity"), NotFinite("-Infinity"), NotFinite("NaN") }

\* isFinite(num) and isNaN(num).
isFinite(num) == num.d[1] # "nonfinite"
isNaN(num) == num.d[1] = "nonfinite" /\ num.d[2] = "NaN"

\* safeRound: 0 for a number that is not finite, and the number rounded
\* to two places otherwise.
safeRound(num) ==
  IF ~isFinite(num) \/ isNaN(num) THEN 0 ELSE Round2(num)

\* Step 1 as a whole: the loop over the sources from source k on, started
\* with the running total.
RECURSIVE TotalIncomeLoop(_, _, _, _)
TotalIncomeLoop(srcs, k, total, asOf) ==
  IF k > Len(srcs) THEN total
  ELSE TotalIncomeLoop(srcs, k + 1,
                       AccumulateIncome(total, FinalIncome(srcs[k], asOf)), asOf)

\* Steps 1, 2, 4 and 5 as a whole: the headline figures calculateTax
\* returns for a list of sources.
Headline(srcs, deds, scottish, asOf) ==
  LET total == TotalIncomeLoop(srcs, 1, Lit(0), asOf)
      allowance == calculatePersonalAllowance(total)
      after == TaxableAfterDeductions(Minus(total, allowance),
                                      SumAmounts(deds, 1, Lit(0)))
  IN  [totalIncome |-> safeRound(total),
       personalAllowance |-> safeRound(allowance),
       taxDueOnIncome |-> safeRound(Lit(calculateTaxDue(after, BandsFor(scottish))))]

----------------------------------------------------------------------------
(* Inputs                                                                  *)

MaxSources == 2
MaxAdjustments == 2

OneOff(incomeToDate, taxPaid) ==
  [isRegular |-> FALSE, incomeToDate |-> incomeToDate,
   startDate |-> TAX_YEAR_START, endDate |-> TAX_YEAR_END,
   monthsPaid |-> <<>>, projectedIncome |-> <<>>, taxPaid |-> taxPaid]

Regular(incomeToDate, startDate, endDate, monthsPaid, projectedIncome, taxPaid) ==
  [isRegular |-> TRUE, incomeToDate |-> incomeToDate,
   startDate |-> startDate, endDate |-> endDate,
   monthsPaid |-> monthsPaid, projectedIncome |-> projectedIncome, taxPaid |-> taxPaid]

\* Income sources a caller can pass: one-off and regular, with and without
\* the optional fields, below the allowance, between the band limits, in
\* the taper zone and above it, in whole pounds and with pence.
SourceSet ==
  { OneOff(GBP(12570) + Pence(3), <<>>),
    OneOff(GBP(5000), <<0>>),
    OneOff(GBP(130000), <<GBP(45000)>>),
    Regular(GBP(60000), TAX_YEAR_START, TAX_YEAR_END, <<>>,
            <<GBP(100000) + Pence(1)>>, <<GBP(27500)>>),
    Regular(GBP(20000), TAX_YEAR_START, TAX_YEAR_END, <<6>>, <<>>, <<>>),
    Regular(GBP(8000), DateOf(2025, 5, 20), DateOf(2026, 1, 28), <<>>, <<>>, <<>>) }

SeqsUpTo(S, n) == UNION { [1..k -> S] : k \in 0..n }

\* Every reordering of a list.
Reorderings(list) ==
  LET n == Len(list)
      Bijections == { f \in [1..n -> 1..n] : \A a, b \in 1..n : a # b => f[a] # f[b] }
  IN  { [k \in 1..n |-> list[f[k]]] : f \in Bijections }

\* Source lists whose total lies in the taper on an odd number of pence, so
\* that the allowance ends on half a penny: two sources that share such an
\* allowance, and three sources in every order.
HalfPennySourceLists ==
  { << OneOff(GBP(774) + Pence(63), <<>>), OneOff(GBP(115167) + Pence(48), <<>>) >>,
    << OneOff(GBP(115167) + Pence(48), <<>>), OneOff(GBP(774) + Pence(63), <<>>) >> }
  \cup Reorderings(<< OneOff(GBP(19951) + Pence(2), <<>>),
                      OneOff(GBP(64664) + Pence(20), <<>>),
                      OneOff(GBP(23194) + Pence(65), <<>>) >>)

SourceLists == (SeqsUpTo(SourceSet, MaxSources) \ {<<>>}) \cup HalfPennySourceLists

DeductionLists ==
  { <<>>,
    << [amount |-> GBP(1200), category |-> "job_expenses"],
       [amount |-> GBP(240) + Pence(50), category |-> "professional_subs"] >>,
    << [amount |-> GBP(200000), category |-> "other"] >> }

AdjustmentSet ==
  { [type |-> "untaxed_interest", amount |-> GBP(5000)],
    [type |-> "underpayment", amount |-> GBP(850)],
    [type |-> "benefit_in_kind", amount |-> 0 - GBP(1000)] }

\* The adjustment lists a caller can pass, among them those whose
\* taxable-income amounts add up to 0: one adjustment left at amount 0, and
\* two that cancel.
AdjustmentLists ==
  SeqsUpTo(AdjustmentSet, MaxAdjustments)
    \cup { << [type |-> "untaxed_interest", amount |-> 0] >>,
           << [type |-> "benefit_in_kind", amount |-> GBP(1000)],
              [type |-> "benefit_in_kind", amount |-> 0 - GBP(1000)] >> }

\* options.today: 28 October 2025, 15:00.
TodaySet == { AtTime(DateOf(2025, 9, 28), 15 * 60) }

\* The zone calculateTax and the band functions are run in: that of a
\* taxpayer in the United Kingdom.
HomeZones == { "Europe/London" }

----------------------------------------------------------------------------
(* calculateTax as a state machine: one call, from its inputs to its result *)

VARIABLES
  pc,                  \* where the call is: step1, step3, step6, done
  sources, deductions, adjustments, useScottishBands, today,   \* the inputs
  i,                   \* index of the running loop
  totalIncome, projectedIncomes,                               \* step 1
  personalAllowance,                                           \* step 2
  paRemaining, taxablePosition, sourceDetails,                 \* step 3
  totalDeductions, taxableIncomeBeforeDeductions,
  taxableIncomeAfterDeductions, taxDueOnIncome,                \* steps 4-5
  totalAdjustmentTax, totalAdditionalTaxableIncome,
  currentTaxableIncome,                                        \* step 6
  result,                                                      \* the return value
  probe                \* a direct call of one engine function, and its result

inputs == <<sources, deductions, adjustments, useScottishBands, today, TZ>>
step1 == <<totalIncome, projectedIncomes>>
step3 == <<paRemaining, taxablePosition, sourceDetails>>
step45 == <<totalDeductions, taxableIncomeBeforeDeductions,
            taxableIncomeAfterDeductions, taxDueOnIncome>>
step6 == <<totalAdjustmentTax, totalAdditionalTaxableIncome, currentTaxableIncome>>
calc == <<pc, inputs, i, step1, personalAllowance, step3, step45, step6, result>>
vars == <<calc, probe>>

taxBands == BandsFor(useScottishBands)

\* The locals of a call before its first statement.  The numbers the call
\* computes are Nums; taxDueOnIncome, a result of calculateTaxDue, and the
\* amounts of projectedIncomes, sourceDetails and result are decimals of
\* two places.
Fresh ==
  /\ totalIncome = Lit(0) /\ projectedIncomes = <<>>
  /\ personalAllowance = Lit(0)
  /\ paRemaining = Lit(0) /\ taxablePosition = Lit(0) /\ sourceDetails = <<>>
  /\ totalDeductions = Lit(0) /\ taxableIncomeBeforeDeductions = Lit(0)
  /\ taxableIncomeAfterDeductions = Lit(0) /\ taxDueOnIncome = 0
  /\ totalAdjustmentTax = Lit(0) /\ totalAdditionalTaxableIncome = Lit(0)
  /\ currentTaxableIncome = Lit(0)
  /\ result = <<>>

NoProbe == [op |-> "none"]

Init ==
  /\ sources \in SourceLists
  /\ deductions \in DeductionLists
  /\ adjustments \in AdjustmentLists
  /\ useScottishBands \in BOOLEAN
  /\ today \in TodaySet
  /\ TZ \in HomeZones
  /\ pc = "step1" /\ i = 1
  /\ Fresh
  /\ probe = NoProbe

\* Step 1, one source: its projected or actual income joins the total.
ProjectSource ==
  /\ pc = "step1" /\ i <= Len(sources)
  /\ LET finalIncome == FinalIncome(sources[i], today)
     IN  /\ totalIncome' = AccumulateIncome(totalIncome, finalIncome)
         /\ projectedIncomes' = Append(projectedIncomes, finalIncome)
  /\ i' = i + 1
  /\ UNCHANGED <<pc, inputs, personalAllowance, step3, step45, step6, result, probe>>

\* Step 2, and the entry of allocateTaxSequentially.
CalculateAllowance ==
  /\ pc = "step1" /\ i > Len(sources)
  /\ personalAllowance' = calculatePersonalAllowance(totalIncome)
  /\ paRemaining' = personalAllowance'
  /\ taxablePosition' = Lit(0)
  /\ sourceDetails' = <<>>
  /\ pc' = "step3" /\ i' = 1
  /\ UNCHANGED <<inputs, step1, step45, step6, result, probe>>

\* Step 3, one source of allocateTaxSequentially's loop.
AllocateSource ==
  /\ pc = "step3" /\ i <= Len(sources)
  /\ LET acc == AllocateStep([paRemaining |-> paRemaining,
                              taxablePosition |-> taxablePosition,
                              details |-> sourceDetails],
                             sources[i], projectedIncomes[i], taxBands)
     IN  /\ paRemaining' = acc.paRemaining
         /\ taxablePosition' = acc.taxablePosition
         /\ sourceDetails' = acc.details
  /\ i' = i + 1
  /\ UNCHANGED <<pc, inputs, step1, personalAllowance, step45, step6, result, probe>>

\* Steps 4 and 5, and the entry of step 6.
ApplyDeductions ==
  /\ pc = "step3" /\ i > Len(sources)
  /\ totalDeductions' = SumAmounts(deductions, 1, Lit(0))
  /\ taxableIncomeBeforeDeductions' = Minus(totalIncome, personalAllowance)
  /\ taxableIncomeAfterDeductions' =
       TaxableAfterDeductions(taxableIncomeBeforeDeductions', totalDeductions')
  /\ taxDueOnIncome' = calculateTaxDue(taxableIncomeAfterDeductions', taxBands)
  /\ totalAdjustmentTax' = Lit(0)
  /\ totalAdditionalTaxableIncome' = Lit(0)
  /\ currentTaxableIncome' = taxableIncomeAfterDeductions'
  /\ pc' = "step6" /\ i' = 1
  /\ UNCHANGED <<inputs, step1, personalAllowance, step3, result, probe>>

\* Step 6, one adjustment.
ApplyAdjustment ==
  /\ pc = "step6" /\ i <= Len(adjustments)
  /\ LET acc == AdjustStep([totalAdjustmentTax |-> totalAdjustmentTax,
                            totalAdditionalTaxableIncome |-> totalAdditionalTaxableIncome,
                            currentTaxableIncome |-> currentTaxableIncome],
                           adjustments[i], taxBands)
     IN  /\ totalAdjustmentTax' = acc.totalAdjustmentTax
         /\ totalAdditionalTaxableIncome' = acc.totalAdditionalTaxableIncome
         /\ currentTaxableIncome' = acc.currentTaxableIncome
  /\ i' = i + 1
  /\ UNCHANGED <<pc, inputs, step1, personalAllowance, step3, step45, result, probe>>

\* sourceDetails.reduce((sum, d) => sum + d.taxPaid, 0), from detail k on
\* with the running sum.
RECURSIVE SumTaxPaid(_, _, _)
SumTaxPaid(details, k, sum) ==
  IF k > Len(details) THEN sum
  ELSE SumTaxPaid(details, k + 1, Plus(sum, Lit(details[k].taxPaid)))

\* The object calculateTax returns (breakdown texts left out).
ResultObject(finalTaxDue, taxPaid, netPosition) ==
  [totalIncome |-> safeRound(totalIncome),
   personalAllowance |-> safeRound(personalAllowance),
   totalDeductions |-> safeRound(totalDeductions),
   taxableIncomeBeforeDeductions |-> safeRound(taxableIncomeBeforeDeductions),
   taxableIncomeAfterDeductions |-> safeRound(currentTaxableIncome),
   taxDueOnIncome |-> safeRound(Lit(taxDueOnIncome)),
   totalAdjustments |-> safeRound(totalAdjustmentTax),
   finalTaxDue |-> safeRound(finalTaxDue),
   taxPaid |-> safeRound(taxPaid),
   netPosition |-> safeRound(netPosition),
   sourceDetails |-> sourceDetails,
   taxableIncome |-> safeRound(currentTaxableIncome),
   taxDue |-> safeRound(finalTaxDue)]

\* Step 7 and the return.
Summarise ==
  /\ pc = "step6" /\ i > Len(adjustments)
  /\ LET finalTaxDue == Plus(Lit(taxDueOnIncome), totalAdjustmentTax)
         taxPaid == SumTaxPaid(sourceDetails, 1, Lit(0))
         netPosition == Minus(taxPaid, finalTaxDue)
     IN  result' = ResultObject(finalTaxDue, taxPaid, netPosition)
  /\ pc' = "done"
  /\ UNCHANGED <<inputs, i, step1, personalAllowance, step3, step45, step6, probe>>

Next ==
  \/ ProjectSource
  \/ CalculateAllowance
  \/ AllocateSource
  \/ ApplyDeductions
  \/ ApplyAdjustment
  \/ Summarise

Spec == Init /\ [][Next]_vars

----------------------------------------------------------------------------
(* calculateTax on the sources of the worked scenarios                     *)

\* Source lists whose incomes total exactly 50,000, 100,000 and 125,140:
\* one source or two, one-off, overridden and projected.
ScenarioSourceLists ==
  { << OneOff(GBP(50000), <<>>) >>,
    << OneOff(GBP(100000), <<>>) >>,
    << Regular(GBP(60000), TAX_YEAR_START, TAX_YEAR_END, <<>>, <<GBP(100000)>>, <<>>) >>,
    << Regular(GBP(50000), TAX_YEAR_START, TAX_YEAR_END, <<6>>, <<>>, <<>>) >>,
    << OneOff(GBP(50000), <<>>), OneOff(GBP(50000), <<GBP(10000)>>) >>,
    << OneOff(GBP(12570), <<>>),
       Regular(GBP(40000), TAX_YEAR_START, TAX_YEAR_END, <<>>, <<GBP(87430)>>, <<>>) >>,
    << OneOff(GBP(99999) + Pence(99), <<>>), OneOff(Pence(1), <<>>) >>,
    << OneOff(GBP(125140), <<>>) >>,
    << OneOff(GBP(100000), <<>>), OneOff(GBP(25140), <<>>) >> }

InitScenario ==
  /\ sources \in ScenarioSourceLists
  /\ deductions \in DeductionLists
  /\ adjustments \in AdjustmentLists
  /\ useScottishBands \in BOOLEAN
  /\ today \in TodaySet
  /\ TZ \in HomeZones
  /\ pc = "step1" /\ i = 1
  /\ Fresh
  /\ probe = NoProbe

SpecScenario == InitScenario /\ [][Next]_vars

----------------------------------------------------------------------------
(* The engine's functions called directly, one call at a time              *)

\* Amounts are probed up to this many pence either side of every limit.
MaxOffset == 2

Near(S) == { x + Pence(d) : x \in S, d \in (0 - MaxOffset)..MaxOffset }

\* The finite band limits of a table.
FiniteLimits(bands) == { bands[k].limit : k \in 1..(Len(bands) - 1) }

Limits == FiniteLimits(TAX_BANDS) \cup FiniteLimits(SCOTTISH_TAX_BANDS)

\* Taxable incomes whose Scottish tax ends on half a penny.
HalfPennyTaxables ==
  { GBP(71531) + Pence(90), GBP(82286) + Pence(70), GBP(101060) + Pence(90) }

\* Taxable incomes for calculateTaxDue: around zero and every limit, between
\* the limits, and in the unbounded band.
TaxableProbes ==
  Near({0} \cup Limits) \cup { GBP(50000) + Pence(33), GBP(150000), GBP(300000) }
  \cup HalfPennyTaxables

\* Amounts and starting positions for calculateTaxForSlice.
SliceAmounts ==
  { Pence(k) : k \in 1..(MaxOffset + 1) } \cup
  { GBP(1), GBP(12000) + Pence(50), GBP(40000), GBP(100000) }

SlicePositions ==
  { 0, GBP(20000), GBP(37700), GBP(50000), GBP(125140), GBP(130000) }

\* Total incomes for calculatePersonalAllowance: around both ends of the
\* taper, inside it, below and above.
IncomeProbes ==
  Near({ GBP(TAPER_THRESHOLD), GBP(TAPER_LIMIT), GBP(110000), GBP(112570) })
  \cup { 0, GBP(50000), GBP(200000) }

InitEngine ==
  /\ sources = <<>> /\ deductions = <<>> /\ adjustments = <<>>
  /\ useScottishBands = FALSE
  /\ today \in TodaySet
  /\ TZ \in HomeZones
  /\ pc = "idle" /\ i = 1
  /\ Fresh
  /\ probe = NoProbe

\* calculateTaxForSlice on an amount a + b at position p, and on its two
\* parts: a at p, b at p + a.
CallSlice ==
  /\ probe = NoProbe
  /\ \E a \in SliceAmounts, b \in SliceAmounts, p \in SlicePositions, scottish \in BOOLEAN :
       probe' = [op |-> "slice", a |-> a, b |-> b, p |-> p, scottish |-> scottish,
                 first |-> calculateTaxForSlice(Lit(a), Lit(p), BandsFor(scottish)),
                 second |-> calculateTaxForSlice(Lit(b), Plus(Lit(p), Lit(a)),
                                                 BandsFor(scottish)),
                 whole |-> calculateTaxForSlice(Plus(Lit(a), Lit(b)), Lit(p),
                                                BandsFor(scottish))]
  /\ UNCHANGED calc

\* calculateTaxDue on x, and calculateTaxForSlice on x from position 0.
CallTaxDue ==
  /\ probe = NoProbe
  /\ \E x \in TaxableProbes, scottish \in BOOLEAN :
       probe' = [op |-> "taxDue", x |-> x, scottish |-> scottish,
                 due |-> calculateTaxDue(Lit(x), BandsFor(scottish)),
                 slice |-> calculateTaxForSlice(Lit(x), Lit(0), BandsFor(scottish))]
  /\ UNCHANGED calc

\* calculatePersonalAllowance on x and on the incomes one and two pence
\* above it, and the taper formula (lines 915-917) evaluated at x.
CallAllowance ==
  /\ probe = NoProbe
  /\ \E x \in IncomeProbes :
       probe' = [op |-> "allowance", x |-> x,
                 allowance |-> calculatePersonalAllowance(Lit(x)),
                 plus1 |-> calculatePersonalAllowance(Lit(x + Pence(1))),
                 plus2 |-> calculatePersonalAllowance(Lit(x + Pence(2))),
                 taper |-> TaperFormula(Lit(x))]
  /\ UNCHANGED calc

\* calculateTaxDue on two taxable incomes x and y, and on the income one
\* penny above x.
CallTaxDuePair ==
  /\ probe = NoProbe
  /\ \E x \in TaxableProbes, y \in TaxableProbes, scottish \in BOOLEAN :
       probe' = [op |-> "taxDuePair", x |-> x, y |-> y, scottish |-> scottish,
                 dueX |-> calculateTaxDue(Lit(x), BandsFor(scottish)),
                 dueY |-> calculateTaxDue(Lit(y), BandsFor(scottish)),
                 plus1 |-> calculateTaxDue(Lit(x + Pence(1)), BandsFor(scottish))]
  /\ UNCHANGED calc

\* Positions for calculateMarginalRate: zero, around every limit, between
\* the limits and above them all.
MarginalPositions == { p \in Near({0} \cup Limits) : p >= 0 } \cup SlicePositions

\* calculateMarginalRate at position p, and the tax calculateTaxForSlice's
\* loop accumulates (before rounding) on one penny starting at p.
CallMarginalRate ==
  /\ probe = NoProbe
  /\ \E p \in MarginalPositions, scottish \in BOOLEAN :
       probe' = [op |-> "marginal", p |-> p, scottish |-> scottish,
                 rate |-> calculateMarginalRate(Lit(p), BandsFor(scottish)),
                 nextPenny |-> SliceLoop(BandsFor(scottish), 1, NoTax, Pence(1), p),
                 nextHundred |-> calculateTaxForSlice(Lit(GBP(100)), Lit(p),
                                                      BandsFor(scottish))]
  /\ UNCHANGED calc

\* Band tables that break the contract: no final unbounded band, limits
\* not ascending, and a limit repeated.
MalformedTables ==
  { << [limit |-> GBP(37700), rate |-> 20, name |-> "Basic Rate"],
       [limit |-> GBP(125140), rate |-> 40, name |-> "Higher Rate"] >>,
    << [limit |-> GBP(125140), rate |-> 40, name |-> "Higher Rate"],
       [limit |-> GBP(37700), rate |-> 20, name |-> "Basic Rate"],
       [limit |-> Infinity, rate |-> 45, name |-> "Additional Rate"] >>,
    << [limit |-> GBP(37700), rate |-> 20, name |-> "Basic Rate"],
       [limit |-> GBP(37700), rate |-> 40, name |-> "Higher Rate"],
       [limit |-> Infinity, rate |-> 45, name |-> "Additional Rate"] >> }

\* The three band functions called with a malformed table.  None of them
\* inspects the table or has a throw statement, so each call returns the
\* number its loop leaves.
CallMalformed ==
  /\ probe = NoProbe
  /\ \E table \in MalformedTables, x \in TaxableProbes :
       probe' = [op |-> "malformed", table |-> table, x |-> x,
                 threw |-> FALSE,
                 due |-> calculateTaxDue(Lit(x), table),
                 slice |-> calculateTaxForSlice(Lit(x), Lit(0), table),
                 rate |-> calculateMarginalRate(Lit(x), table)]
  /\ UNCHANGED calc

\* Numbers handed to safeRound: amounts of whole pence, amounts that end on
\* half a penny, and the numbers that are not finite.
RoundingProbes ==
  { Lit(0), Lit(GBP(12570)), Lit(GBP(1) + 1), Lit(0 - (GBP(1) + 1)),
    Half(Lit(GBP(25140) - Pence(1))),
    Minus(Lit(GBP(12570)), Half(Lit(GBP(55) + Pence(5)))) }
  \cup NonFiniteNumbers

\* safeRound on a number.
CallSafeRound ==
  /\ probe = NoProbe
  /\ \E num \in RoundingProbes :
       probe' = [op |-> "safeRound", num |-> num, rounded |-> safeRound(num)]
  /\ UNCHANGED calc

\* The call returns; the engine keeps nothing between calls.
Return ==
  /\ probe # NoProbe
  /\ probe' = NoProbe
  /\ UNCHANGED calc

NextEngine ==
  \/ CallSlice
  \/ CallTaxDue
  \/ CallAllowance
  \/ CallTaxDuePair
  \/ CallMarginalRate
  \/ CallMalformed
  \/ CallSafeRound
  \/ Return

SpecEngine == InitEngine /\ [][NextEngine]_vars

----------------------------------------------------------------------------
(* The calendar resolver and the income projector called directly          *)

\* Every day of the tax year, at midnight.
TaxYearDays ==
  { DateOf(y, m, d) : y \in {TAX_YEAR_START.y, TAX_YEAR_END.y}, m \in 0..11, d \in 1..31 }
  \cap { date \in [y : {TAX_YEAR_START.y, TAX_YEAR_END.y}, m : 0..11, d : 1..31,
                    min : {0}] :
           /\ date.d <= DaysInMonth(date.y, date.m)
           /\ TimeOf(TAX_YEAR_START) <= TimeOf(date)
           /\ TimeOf(date) <= TimeOf(TAX_YEAR_END) }

\* A Date at 15:00 of the same day, one at 09:00, and the two within half
\* an hour of noon.
Later(date) == AtTime(date, 15 * 60)
Morning(date) == AtTime(date, 9 * 60)
BeforeNoon(date) == AtTime(date, 11 * 60 + 30)
AfterNoon(date) == AtTime(date, 12 * 60 + 30)

\* Employment start dates: the first day of the tax year, a day on the
\* 1st-5th, mid-period days, a 6th, a day before the tax year, starts
\* given with a time of day (a string YYYY-MM-DDTHH:MM), and starts close
\* to noon in the periods in which the clocks go back and forward.
StartProbes ==
  { TAX_YEAR_START, DateOf(2025, 4, 3), DateOf(2025, 5, 20), DateOf(2025, 2, 1),
    DateOf(2025, 9, 28), DateOf(2025, 11, 1), DateOf(2026, 0, 6),
    Later(DateOf(2025, 5, 20)), Morning(DateOf(2025, 9, 28)),
    AfterNoon(DateOf(2025, 9, 20)), BeforeNoon(DateOf(2026, 2, 10)) }

\* Values of today: in the tax year at midnight and later in the day, on
\* its first day, before it, after it, and in the period of the earlier
\* employment end.
TodayProbes ==
  { DateOf(2025, 9, 28), Later(DateOf(2025, 9, 28)), TAX_YEAR_START,
    Later(DateOf(2025, 2, 1)), Later(DateOf(2026, 9, 28)), DateOf(2026, 1, 20) }

\* monthsPaid: undefined, negative, zero and positive counts.
MonthsPaidProbes == { <<>>, <<0 - 2>>, <<0>>, <<3>>, <<12>> }

\* Employment end dates: the end of the tax year, a day of period 11, and
\* a day of period 1 that is earlier than most start dates.
EndProbes == { TAX_YEAR_END, DateOf(2026, 1, 28), DateOf(2025, 3, 10) }

\* Dates handed to getPAYEPeriod from the calendar years around the tax
\* year as well as from it.
AnyDateProbes ==
  { DateOf(2023, 11, 20), DateOf(2024, 0, 3),
    DateOf(2024, 11, 20), DateOf(2025, 0, 10), DateOf(2025, 2, 1), DateOf(2025, 3, 5),
    TAX_YEAR_START, DateOf(2025, 9, 28), DateOf(2026, 0, 3), TAX_YEAR_END,
    DateOf(2026, 3, 6), DateOf(2026, 9, 28), DateOf(2027, 0, 10), DateOf(2027, 2, 10) }

\* Inputs of the day-based projector: incomes to date, and values of today
\* at midnight.
DayIncomeProbes == { 0, GBP(700), GBP(1234) + Pence(56) }
DayTodayProbes == { DateOf(2025, 9, 28), DateOf(2026, 2, 3) }

IncomeToDateProbes == { GBP(8000), GBP(20000) + Pence(1) }

\* Period numbers handed to getPAYEPeriodDates, inside and outside 1..12.
PeriodNumberProbes == (0 - 3)..16

\* getPAYEPeriod on a day of the tax year, at midnight or later in the day.
CallPeriod ==
  /\ probe = NoProbe
  /\ \E day \in TaxYearDays, late \in BOOLEAN :
       LET date == IF late THEN Later(day) ELSE day
       IN  probe' = [op |-> "period", date |-> date,
                     period |-> getPAYEPeriod(date, TAX_YEAR_START)]
  /\ UNCHANGED calc

\* getPAYEPeriodDates on a period number.
CallPeriodDates ==
  /\ probe = NoProbe
  /\ \E periodNumber \in PeriodNumberProbes :
       probe' = [op |-> "periodDates", periodNumber |-> periodNumber,
                 dates |-> getPAYEPeriodDates(periodNumber, TAX_YEAR_START)]
  /\ UNCHANGED calc

\* getAsOfDateForMonthsPaid on a count of months paid, a start date and a
\* value of today.
CallAsOfDateForMonthsPaid ==
  /\ probe = NoProbe
  /\ \E monthsPaid \in 1..12, startDate \in StartProbes, now \in TodayProbes :
       probe' = [op |-> "asOfDate", monthsPaid |-> monthsPaid, startDate |-> startDate,
                 today |-> now,
                 targetPeriodNumber |->
                   getPAYEPeriod(ClampStart(startDate, TAX_YEAR_START),
                                 TAX_YEAR_START).periodNumber + monthsPaid - 1,
                 asOfDate |-> getAsOfDateForMonthsPaid(monthsPaid, startDate, now,
                                                       TAX_YEAR_START)]
  /\ UNCHANGED calc

\* calculateEquivalentPeriods and calculateTotalPeriods on the same start
\* date, at midnight, at 12:30 or at 15:00.
CallPeriods ==
  /\ probe = NoProbe
  /\ \E day \in TaxYearDays, min \in {0, 12 * 60 + 30, 15 * 60},
        asOfDate \in {Later(DateOf(2025, 9, 28)), TAX_YEAR_END} :
       LET startDate == AtTime(day, min)
       IN
       probe' = [op |-> "periods", startDate |-> startDate, asOfDate |-> asOfDate,
                 worked |-> calculateEquivalentPeriods(startDate, asOfDate, TAX_YEAR_START),
                 total |-> calculateTotalPeriods(startDate, TAX_YEAR_END, TAX_YEAR_START)]
  /\ UNCHANGED calc

\* calculateProjectedIncome.  It has no throw statement and validates none
\* of its arguments, so every call returns a projection.
CallProjectedIncome ==
  /\ probe = NoProbe
  /\ \E incomeToDate \in IncomeToDateProbes, startDate \in StartProbes,
        monthsPaid \in MonthsPaidProbes, now \in TodayProbes, endDate \in EndProbes :
       probe' = [op |-> "projected", incomeToDate |-> incomeToDate,
                 startDate |-> startDate, monthsPaid |-> monthsPaid,
                 today |-> now, endDate |-> endDate,
                 threw |-> FALSE,
                 projected |-> calculateProjectedIncome(incomeToDate, startDate,
                                                        monthsPaid, now, endDate)]
  /\ UNCHANGED calc

\* getPAYEPeriod on a date in or outside the tax year.
CallPeriodAnyDate ==
  /\ probe = NoProbe
  /\ \E date \in AnyDateProbes :
       probe' = [op |-> "periodAnyDate", date |-> date,
                 period |-> getPAYEPeriod(date, TAX_YEAR_START)]
  /\ UNCHANGED calc

\* The day-based calculateProjectedIncome on a start date in the tax year.
CallProjectedIncomeByDays ==
  /\ probe = NoProbe
  /\ \E incomeToDate \in DayIncomeProbes, startDate \in TaxYearDays,
        includeCurrentMonth \in BOOLEAN, now \in DayTodayProbes :
       probe' = [op |-> "projectedByDays", incomeToDate |-> incomeToDate,
                 startDate |-> startDate, includeCurrentMonth |-> includeCurrentMonth,
                 today |-> now,
                 result |-> calculateProjectedIncomeByDays(incomeToDate, startDate,
                                                           includeCurrentMonth, now)]
  /\ UNCHANGED calc

\* The process that serves the direct calls runs in any of the zones.
InitPAYE ==
  /\ sources = <<>> /\ deductions = <<>> /\ adjustments = <<>>
  /\ useScottishBands = FALSE
  /\ today \in TodaySet
  /\ TZ \in Zones
  /\ pc = "idle" /\ i = 1
  /\ Fresh
  /\ probe = NoProbe

NextPAYE ==
  \/ CallPeriod
  \/ CallPeriodDates
  \/ CallAsOfDateForMonthsPaid
  \/ CallPeriods
  \/ CallProjectedIncome
  \/ CallPeriodAnyDate
  \/ CallProjectedIncomeByDays
  \/ Return

SpecPAYE == InitPAYE /\ [][NextPAYE]_vars

----------------------------------------------------------------------------
(* Claims about the band engine and the allowance (SpecEngine)             *)

\* C1 (as claimed): the tax on a slice a + b starting at p is the tax on a at
\* p plus the tax on b at p + a, for every split, band table and position.
C1_SliceAdditivity ==
  probe.op = "slice" => probe.first + probe.second = probe.whole

\* C2: calculateTaxDue(x) and calculateTaxForSlice(x, 0) return the same tax
\* for every taxable income x and both band tables, and both return 0 for
\* every x <= 0.
C2_TaxDueIsSliceFromZero ==
  probe.op = "taxDue" =>
    /\ probe.due = probe.slice
    /\ probe.x <= 0 => (probe.due = 0 /\ probe.slice = 0)

\* C2's case: a taxable income above every finite limit of the Scottish
\* table, taxed by both walks across all six bands.
C2_Witness ==
  /\ probe.op = "taxDue" /\ probe.scottish
  /\ probe.x > GBP(125140)
  /\ probe.due > 0 /\ probe.slice > 0

\* C10: strictly inside the taper the allowance falls by exactly one penny
\* for every two pence of income; the taper formula gives the full allowance
\* at the threshold and 0 at the limit, where the function's other branches
\* take over; and nowhere does one more penny of income raise the allowance
\* or lower it by more than half a penny.
C10_TaperLinearContinuous ==
  probe.op = "allowance" =>
    /\ (GBP(TAPER_THRESHOLD) < probe.x /\ probe.x + Pence(2) < GBP(TAPER_LIMIT))
         => probe.allowance.x - probe.plus2.x = Pence(1)
    /\ (GBP(TAPER_THRESHOLD) < probe.x /\ probe.x < GBP(TAPER_LIMIT))
         => 2 * probe.allowance.x + probe.x
              = 2 * GBP(PERSONAL_ALLOWANCE) + GBP(TAPER_THRESHOLD)
    /\ probe.x = GBP(TAPER_THRESHOLD)
         => (probe.taper.x = GBP(PERSONAL_ALLOWANCE) /\ probe.allowance.x = probe.taper.x)
    /\ probe.x = GBP(TAPER_LIMIT)
         => (probe.taper.x = 0 /\ probe.allowance.x = probe.taper.x)
    /\ probe.plus1.x <= probe.allowance.x
    /\ probe.allowance.x - probe.plus1.x <= 1
    /\ probe.plus2.x <= probe.plus1.x

\* C10's case: an income inside the taper whose allowance is a whole number
\* of pence plus a half.
C10_Witness ==
  /\ probe.op = "allowance"
  /\ GBP(TAPER_THRESHOLD) < probe.x /\ probe.x + Pence(2) < GBP(TAPER_LIMIT)
  /\ probe.allowance.x % 2 = 1
  /\ probe.allowance.x - probe.plus2.x = Pence(1)

----------------------------------------------------------------------------
(* Claims about one calculateTax call (Spec)                               *)

\* The call has returned.
Done == pc = "done"

\* A reported amount r is the exact amount of half-pence rounded to a whole
\* penny: the amount itself when it is whole pence, else one of the two
\* pence it lies half-way between.
IsRounded(r, exact) == r % 2 = 0 /\ r - exact \in {0 - 1, 0, 1}

\* The allowance of a total income, from the three cases of the taper.
ExactAllowance(total) ==
  IF total <= GBP(100000) THEN GBP(12570)
  ELSE IF total >= GBP(125140) THEN 0
  ELSE Max(0, GBP(12570) - (total - GBP(100000)) \div 2)

\* The amounts of a list of deductions from item k on, added up.
RECURSIVE SumOfAmounts(_, _)
SumOfAmounts(items, k) ==
  IF k > Len(items) THEN 0 ELSE items[k].amount + SumOfAmounts(items, k + 1)

RECURSIVE SumTaxDue(_, _)
SumTaxDue(details, k) ==
  IF k > Len(details) THEN 0 ELSE details[k].taxDue + SumTaxDue(details, k + 1)

RECURSIVE SumPaUsed(_, _)
SumPaUsed(details, k) ==
  IF k > Len(details) THEN 0 ELSE details[k].paUsed + SumPaUsed(details, k + 1)

\* The sum of the incomes the sources contribute, added up source by source.
RECURSIVE SumOfIncomes(_, _)
SumOfIncomes(srcs, k) ==
  IF k > Len(srcs) THEN 0 ELSE FinalIncome(srcs[k], today) + SumOfIncomes(srcs, k + 1)

\* C3 (as claimed): with no deductions, the per-source tax sums to the tax
\* due on the aggregate taxable income.
C3_PerSourceTaxSumsToHeadline ==
  (Done /\ deductions = <<>>) => SumTaxDue(result.sourceDetails, 1) = result.taxDueOnIncome

\* C4 (as claimed): calculateTax on any reordering of the sources (same
\* deductions, as-of date and band table) returns the same totalIncome,
\* personalAllowance and taxDueOnIncome as the call that has just returned.
C4_HeadlineIgnoresSourceOrder ==
  Done => \A other \in Reorderings(sources) :
            Headline(other, deductions, useScottishBands, today) =
              [totalIncome |-> result.totalIncome,
               personalAllowance |-> result.personalAllowance,
               taxDueOnIncome |-> result.taxDueOnIncome]

\* C5 (as claimed): once every source is allocated, the allowance used sums
\* to the allowance granted when total income reaches it and to total income
\* otherwise; each source uses between 0 and its income; the remaining
\* allowance is never negative.
C5_AllowanceUsedSumsToGranted ==
  /\ paRemaining.x >= 0
  /\ \A k \in 1..Len(sourceDetails) :
       0 <= sourceDetails[k].paUsed /\ sourceDetails[k].paUsed <= sourceDetails[k].income
  /\ pc \in {"step6", "done"} =>
       /\ personalAllowance.x - paRemaining.x = Min(personalAllowance.x, totalIncome.x)
       /\ SumPaUsed(sourceDetails, 1) =
            Min(safeRound(personalAllowance), safeRound(totalIncome))

\* The band-position cursor: the allocator's taxablePosition, then step 6's
\* currentTaxableIncome.
Cursor == IF pc \in {"step6", "done"} THEN currentTaxableIncome.x ELSE taxablePosition.x

\* C6 (as claimed): the cursor never decreases within a call, across the
\* sources, then the deductions, then the adjustments.
C6_CursorNeverDecreases == [][Cursor' >= Cursor]_vars

\* Two Numbers less than half a penny apart.
WithinHalfAPenny(a, b) ==
  /\ FLt(FSub(Double(a.d), Double(b.d)), DoubleOfDecimal(1))
  /\ FLt(FSub(Double(b.d), Double(a.d)), DoubleOfDecimal(1))

\* C6 (amended): the cursor does not decrease from source to source.  The
\* position after deductions is max(0, totalIncome - personalAllowance -
\* deductions); for deductions that total D >= 0 it is, as an amount,
\* max(0, P - D) of the position P after the last source: never above P,
\* equal to P exactly when D = 0 or P = 0, and then less than half a penny
\* from it as a double.  A taxable-income adjustment moves the position by
\* exactly its amount, a direct-tax adjustment leaves it where it is, and
\* so no adjustment of an amount >= 0 decreases it.
C6_CursorSteps ==
  [][ /\ (pc = "step3" /\ pc' = "step3") => AtMost(taxablePosition, taxablePosition')
      /\ (pc = "step3" /\ pc' = "step6") =>
           /\ currentTaxableIncome'.x =
                Max(0, totalIncome.x - personalAllowance.x - SumOfAmounts(deductions, 1))
           /\ SumOfAmounts(deductions, 1) >= 0 =>
                /\ currentTaxableIncome'.x =
                     Max(0, taxablePosition.x - SumOfAmounts(deductions, 1))
                /\ currentTaxableIncome'.x <= taxablePosition.x
                /\ currentTaxableIncome'.x = taxablePosition.x <=>
                     (SumOfAmounts(deductions, 1) = 0 \/ taxablePosition.x = 0)
                /\ currentTaxableIncome'.x = taxablePosition.x =>
                     WithinHalfAPenny(currentTaxableIncome', taxablePosition)
      /\ (pc = "step6" /\ pc' = "step6") =>
           /\ isAdjustmentTaxableIncome(adjustments[i].type) =>
                currentTaxableIncome' = Plus(currentTaxableIncome, Lit(adjustments[i].amount))
           /\ isAdjustmentTaxableIncome(adjustments[i].type) =>
                currentTaxableIncome'.x - currentTaxableIncome.x = adjustments[i].amount
           /\ ~isAdjustmentTaxableIncome(adjustments[i].type) =>
                currentTaxableIncome' = currentTaxableIncome
           /\ adjustments[i].amount >= 0 =>
                AtMost(currentTaxableIncome, currentTaxableIncome')
    ]_vars

\* C6's case: two sources that both advance the cursor, deductions that
\* pull it back, and two adjustments, one of which advances it again.
C6_Witness ==
  /\ Done /\ Len(sources) = 2 /\ Len(adjustments) = 2
  /\ sourceDetails[1].taxableIncome > 0 /\ sourceDetails[2].taxableIncome > 0
  /\ totalDeductions.x > 0
  /\ 0 < taxableIncomeAfterDeductions.x
  /\ taxableIncomeAfterDeductions.x < taxablePosition.x
  /\ currentTaxableIncome.x > taxableIncomeAfterDeductions.x

\* What C7 says the adjustments from adjustment k on add to the tax, the
\* running position being at position.
RECURSIVE ClaimedAdjustmentTax(_, _, _, _)
ClaimedAdjustmentTax(adjs, k, position, bands) ==
  IF k > Len(adjs) THEN 0
  ELSE IF isAdjustmentTaxableIncome(adjs[k].type)
       THEN calculateTaxDue(Plus(position, Lit(adjs[k].amount)), bands)
              - calculateTaxDue(position, bands)
              + ClaimedAdjustmentTax(adjs, k + 1, Plus(position, Lit(adjs[k].amount)),
                                     bands)
       ELSE adjs[k].amount + ClaimedAdjustmentTax(adjs, k + 1, position, bands)

\* C7 (as claimed): every taxable-income adjustment, of any amount, adds
\* taxDue(position + amount) - taxDue(position), every direct-tax adjustment
\* adds its amount, and finalTaxDue is taxDueOnIncome plus these.
C7_AdjustmentsFoldAtMarginalPosition ==
  Done =>
    LET claimed == ClaimedAdjustmentTax(adjustments, 1, taxableIncomeAfterDeductions, taxBands)
    IN  /\ totalAdjustmentTax.x = claimed
        /\ result.finalTaxDue = taxDueOnIncome + claimed

\* The sum of the amounts of the taxable-income adjustments from k on.
RECURSIVE SumTaxableAdjustments(_, _)
SumTaxableAdjustments(adjs, k) ==
  IF k > Len(adjs) THEN 0
  ELSE (IF isAdjustmentTaxableIncome(adjs[k].type) THEN adjs[k].amount ELSE 0)
         + SumTaxableAdjustments(adjs, k + 1)

\* max(0, totalIncome - personalAllowance - sum of the deduction amounts),
\* from the inputs.
ExpectedAfterDeductions ==
  LET total == SumOfIncomes(sources, 1)
  IN  Max(0, total - ExactAllowance(total) - SumOfAmounts(deductions, 1))

\* C8 (as claimed): the returned taxableIncomeAfterDeductions is
\* max(0, totalIncome - personalAllowance - deductions), whatever the
\* adjustments, and taxDueOnIncome is calculateTaxDue of that value.
C8_AfterDeductionsIgnoresAdjustments ==
  Done =>
    /\ IsRounded(result.taxableIncomeAfterDeductions, ExpectedAfterDeductions)
    /\ taxableIncomeAfterDeductions.x = ExpectedAfterDeductions
    /\ result.taxDueOnIncome = calculateTaxDue(taxableIncomeAfterDeductions, taxBands)

\* The taxable-income adjustments from k on all have the amount 0.
RECURSIVE NoTaxableAdjustmentAmount(_, _)
NoTaxableAdjustmentAmount(adjs, k) ==
  IF k > Len(adjs) THEN TRUE
  ELSE /\ isAdjustmentTaxableIncome(adjs[k].type) => adjs[k].amount = 0
       /\ NoTaxableAdjustmentAmount(adjs, k + 1)

\* C8 (amended): the returned taxableIncomeAfterDeductions is
\* max(0, totalIncome - personalAllowance - deductions) plus the amounts of
\* the taxable-income adjustments, rounded: so that value rounded when the
\* amounts add up to 0, and exactly what safeRound makes of it when every
\* one of them is 0.  taxDueOnIncome is calculateTaxDue of the value
\* without the adjustments.
C8_AfterDeductionsIncludesAdjustments ==
  Done =>
    /\ IsRounded(result.taxableIncomeAfterDeductions,
                 ExpectedAfterDeductions + SumTaxableAdjustments(adjustments, 1))
    /\ SumTaxableAdjustments(adjustments, 1) = 0 =>
         IsRounded(result.taxableIncomeAfterDeductions, ExpectedAfterDeductions)
    /\ NoTaxableAdjustmentAmount(adjustments, 1) =>
         result.taxableIncomeAfterDeductions = safeRound(taxableIncomeAfterDeductions)
    /\ result.taxableIncome = result.taxableIncomeAfterDeductions
    /\ taxableIncomeAfterDeductions.x = ExpectedAfterDeductions
    /\ result.taxDueOnIncome = calculateTaxDue(taxableIncomeAfterDeductions, taxBands)

\* C8's case: deductions larger than the taxable income, floored at 0, and
\* a taxable-income adjustment reported on top.
C8_Witness ==
  /\ Done
  /\ taxableIncomeBeforeDeductions.x > 0
  /\ totalDeductions.x > taxableIncomeBeforeDeductions.x
  /\ result.taxDueOnIncome = 0
  /\ result.taxableIncomeAfterDeductions > 0

\* C9: the allowance is the full 12,570 up to a total income of 100,000, 0
\* from 125,140, and max(0, 12,570 - (totalIncome - 100,000) / 2) between,
\* of the sum of all the sources' incomes; it is what the allocator starts
\* from and what the call returns.
C9_AllowanceOfTotalIncome ==
  pc \in {"step3", "step6", "done"} =>
    LET total == SumOfIncomes(sources, 1)
        expected == ExactAllowance(total)
    IN  /\ totalIncome.x = total
        /\ personalAllowance.x = expected
        /\ Done => IsRounded(result.personalAllowance, expected)

\* C9's case: two sources, the first of which alone is below the taper
\* threshold, whose sum is inside the taper.
C9_Witness ==
  /\ Done /\ Len(sources) = 2
  /\ 0 < projectedIncomes[1] /\ projectedIncomes[1] < GBP(TAPER_THRESHOLD)
  /\ 0 < projectedIncomes[2]
  /\ totalIncome.x > GBP(TAPER_THRESHOLD) /\ totalIncome.x < GBP(TAPER_LIMIT)
  /\ 0 < personalAllowance.x /\ personalAllowance.x < GBP(PERSONAL_ALLOWANCE)

----------------------------------------------------------------------------
(* Further claims about the band engine (SpecEngine)                       *)

\* C11: for both band tables, a taxable income x <= y never owes more than
\* y, and one more penny of income never lowers the tax nor raises it by
\* more than one penny, also across a band limit.
C11_TaxDueMonotoneContinuous ==
  probe.op = "taxDuePair" =>
    /\ probe.x <= probe.y => probe.dueX <= probe.dueY
    /\ probe.dueX <= probe.plus1
    /\ probe.plus1 - probe.dueX <= Pence(1)

\* C11's case: x exactly at a band limit, y one penny above it in the next
\* band, and tax owed on both.
C11_Witness ==
  /\ probe.op = "taxDuePair"
  /\ probe.x \in FiniteLimits(BandsFor(probe.scottish))
  /\ probe.y = probe.x + Pence(1)
  /\ probe.dueX > 0 /\ probe.dueY = probe.plus1

\* The rate of the first band of the table whose limit strictly exceeds the
\* position.
RateOfFirstBandAbove(position, bands) ==
  LET first == CHOOSE k \in 1..Len(bands) :
                 /\ bands[k].limit > position
                 /\ \A j \in 1..(k - 1) : bands[j].limit <= position
  IN  bands[first].rate

\* C12 (as claimed): calculateMarginalRate returns the rate of the first
\* band whose limit strictly exceeds the position (40% at 37,700 and 45% at
\* 125,140 in the standard table), and that is the rate at which
\* calculateTaxForSlice taxes the next penny from that position.
C12_MarginalRateIsNextPennyRate ==
  probe.op = "marginal" =>
    /\ probe.rate = RateOfFirstBandAbove(probe.p, BandsFor(probe.scottish))
    /\ (~probe.scottish /\ probe.p = GBP(37700)) => probe.rate = 40
    /\ (~probe.scottish /\ probe.p = GBP(125140)) => probe.rate = 45
    /\ probe.nextPenny = TaxAdd(NoTax, Pence(1), probe.rate)

\* A band table is well formed: limits strictly ascending and a final
\* unbounded band.
WellFormed(bands) ==
  /\ Len(bands) >= 1
  /\ bands[Len(bands)].limit = Infinity
  /\ \A k \in 1..(Len(bands) - 1) : bands[k].limit < bands[k + 1].limit

\* C18 (as claimed): a call of calculateTaxDue, calculateTaxForSlice or
\* calculateMarginalRate with a malformed band table ends in an error and
\* returns no number.
C18_MalformedTableRejected ==
  (probe.op = "malformed" /\ ~WellFormed(probe.table)) => probe.threw

----------------------------------------------------------------------------
(* Claims about PAYE periods and the projection (SpecPAYE)                 *)

\* The PAYE period a calendar day lies in, from the calendar: it starts on
\* the latest 6th on or before the day and ends on the earliest 5th on or
\* after it.
PeriodStartOf(date) ==
  IF date.d >= 6 THEN DateOf(date.y, date.m, 6) ELSE NewDate(date.y, date.m - 1, 6)

PeriodEndOf(date) ==
  IF date.d <= 5 THEN DateOf(date.y, date.m, 5) ELSE NewDate(date.y, date.m + 1, 5)

\* The number of PAYE periods of the tax year that have started by the day.
PeriodsStartedBy(date) ==
  Cardinality({ k \in 1..12 :
    DayNumber(NewDate(TAX_YEAR_START.y, TAX_YEAR_START.m + k - 1, 6)) <= DayNumber(date) })

\* The calendar days from one day to another, both included.
CalendarDays(first, last) == DayNumber(last) - DayNumber(first) + 1

\* C13 (as claimed): for a start date in the tax year both period counts
\* take as first-period fraction the days from the start date to the end of
\* its PAYE period over the period's length (1.0 for a start on the 6th),
\* also for a start on the 1st-5th, and every later period up to the as-of
\* period adds 1.0.
C13_FirstPeriodFraction ==
  probe.op = "periods" =>
    LET start == probe.startDate
        length == CalendarDays(PeriodStartOf(start), PeriodEndOf(start))
        daysLeft == CalendarDays(start, PeriodEndOf(start))
    IN  /\ probe.worked.den = length /\ probe.total.den = length
        /\ probe.total.firstNum = daysLeft
        /\ probe.worked.firstNum = daysLeft
        /\ start.d = 6 => (probe.worked.firstNum = length /\ probe.total.firstNum = length)
        /\ probe.worked.firstNum = probe.total.firstNum
        /\ DayNumber(probe.asOfDate) >= DayNumber(start) =>
             probe.worked.fullPeriodsAfter =
               PeriodsStartedBy(probe.asOfDate) - PeriodsStartedBy(start)
        /\ probe.worked.num = probe.worked.firstNum + probe.worked.fullPeriodsAfter * length

\* C14: for every day of the tax year getPAYEPeriod returns a period
\* numbered 1..12 that runs from the 6th of a month to the 5th of the next
\* and contains the day; a 6th starts its period, a 1st-5th belongs to the
\* period begun the month before; the number counts the periods started
\* since 6 April, so 6 Dec - 5 Jan is period 9 and 6 Jan - 5 Feb period 10.
C14_PeriodContainsDate ==
  probe.op = "period" =>
    LET date == probe.date
        period == probe.period
    IN  /\ period.periodNumber \in 1..12
        /\ period.startDate.d = 6 /\ period.endDate.d = 5
        /\ period.endDate.m = (period.startDate.m + 1) % 12
        /\ period.endDate.y = period.startDate.y + (IF period.startDate.m = 11 THEN 1 ELSE 0)
        /\ DayNumber(period.startDate) <= DayNumber(date)
        /\ DayNumber(date) <= DayNumber(period.endDate)
        /\ date.d = 6 => DayNumber(period.startDate) = DayNumber(date)
        /\ date.d <= 5 => period.startDate.m = (date.m + 11) % 12
        /\ period.periodNumber = PeriodsStartedBy(date)
        /\ (DayNumber(DateOf(2025, 11, 6)) <= DayNumber(date)
              /\ DayNumber(date) <= DayNumber(DateOf(2026, 0, 5))) => period.periodNumber = 9
        /\ (DayNumber(DateOf(2026, 0, 6)) <= DayNumber(date)
              /\ DayNumber(date) <= DayNumber(DateOf(2026, 1, 5))) => period.periodNumber = 10

\* C14's case: a day on the 1st-5th of January, in the period that began in
\* December of the year before.
C14_Witness ==
  /\ probe.op = "period"
  /\ probe.date.m = 0 /\ probe.date.d <= 5
  /\ probe.period.startDate.y = probe.date.y - 1
  /\ probe.period.periodNumber = 9

\* The first and last day of period k of the tax year, k in 1..12, from the
\* calendar.
PeriodFirstDay(k) == NewDate(TAX_YEAR_START.y, TAX_YEAR_START.m + k - 1, 6)
PeriodLastDay(k) == NewDate(TAX_YEAR_START.y, TAX_YEAR_START.m + k, 5)

InTaxYear(date) ==
  /\ DayNumber(TAX_YEAR_START) <= DayNumber(date)
  /\ DayNumber(date) <= DayNumber(TAX_YEAR_END)

\* C15 (as claimed): getPAYEPeriodDates returns the dates of period 1 for
\* every period number below 1 and those of period 12 for every number
\* above 12, so its dates always lie in the tax year, and so does the period
\* end getAsOfDateForMonthsPaid takes when startPeriod + monthsPaid - 1 > 12.
C15_PeriodNumberClamped ==
  /\ probe.op = "periodDates" =>
       LET k == Max(1, Min(12, probe.periodNumber))
       IN  /\ probe.dates.startDate = PeriodFirstDay(k)
           /\ probe.dates.endDate = PeriodLastDay(k)
           /\ InTaxYear(probe.dates.startDate) /\ InTaxYear(probe.dates.endDate)
  /\ (probe.op = "asOfDate" /\ probe.asOfDate # probe.today) =>
       /\ InTaxYear(probe.asOfDate)
       /\ probe.asOfDate = PeriodLastDay(Max(1, Min(12, probe.targetPeriodNumber)))

\* The call projects with an explicit count of periods paid.
ExplicitCount == IsSet(probe.monthsPaid) /\ Val(probe.monthsPaid) > 0

\* today is not after the start date clamped to the tax year.
NotStarted ==
  TimeOf(probe.today) <= TimeOf(ClampStart(probe.startDate, TAX_YEAR_START))

\* A reported amount r is amount * n / d rounded to a whole penny: the
\* nearest penny, or one of the two nearest when it lies half-way.
IsRoundedScaled(r, amount, n, d) ==
  \/ r = RoundScaled(amount, n, d)
  \/ ScaledIsHalfway(amount, n, d) /\ r = RoundScaled(amount, n, d) - Pence(1)

\* C16 (as claimed): whenever the as-of date is not after the clamped start
\* date the projection is incomeToDate, with an explicit count of periods
\* paid as well as with the count derived from today.
C16_NotStartedReturnsIncomeToDate ==
  (probe.op = "projected" /\ NotStarted) => probe.projected = probe.incomeToDate

\* C16 (amended): without an explicit positive count of periods paid, a
\* today not after the clamped start date gives incomeToDate; with an
\* explicit count n >= 1 the projection is incomeToDate * totalPeriods / n
\* whatever today is, so the divisor is never below 1.
C16_NotStartedWithoutExplicitCount ==
  probe.op = "projected" =>
    LET total == calculateTotalPeriods(ClampStart(probe.startDate, TAX_YEAR_START),
                                       probe.endDate, TAX_YEAR_START)
    IN  /\ (~ExplicitCount /\ NotStarted) => probe.projected = probe.incomeToDate
        /\ ExplicitCount =>
             /\ Val(probe.monthsPaid) >= 1
             /\ IsRoundedScaled(probe.projected, probe.incomeToDate, total.num,
                                total.den * Val(probe.monthsPaid))

\* C16's case: a source starting after today, in the tax year, projected
\* without a count of periods paid: incomeToDate comes back although the
\* employment window is longer than one period.
C16_Witness ==
  /\ probe.op = "projected" /\ NotStarted /\ ~ExplicitCount
  /\ DayNumber(probe.startDate) > DayNumber(probe.today)
  /\ DayNumber(probe.startDate) > DayNumber(TAX_YEAR_START)
  /\ probe.projected = probe.incomeToDate
  /\ calculateTotalPeriods(probe.startDate, probe.endDate, TAX_YEAR_START).fullPeriodsAfter >= 1

\* C19 (as claimed): a negative count of periods paid makes
\* calculateProjectedIncome throw; no projection comes back.
C19_NegativeCountThrows ==
  (probe.op = "projected" /\ IsSet(probe.monthsPaid) /\ Val(probe.monthsPaid) < 0)
    => probe.threw

----------------------------------------------------------------------------
(* Further claims about one calculateTax call (Spec)                       *)

\* Exact amounts of tax, in the form of the band walks' accumulator.
ExactAmount(h) == [whole |-> h, hundredths |-> 0]
ExactPlus(s, t) == [whole |-> s.whole + t.whole, hundredths |-> s.hundredths + t.hundredths]
ExactMinus(s, t) == [whole |-> s.whole - t.whole, hundredths |-> s.hundredths - t.hundredths]

\* The band tax on a taxable income and on a slice, before any rounding.
ExactTaxDue(taxableIncome, bands) ==
  IF taxableIncome <= 0 THEN NoTax ELSE TaxDueLoop(bands, 1, NoTax, taxableIncome, 0)

ExactSliceTax(incomeAmount, startingPosition, bands) ==
  IF incomeAmount <= 0 THEN NoTax
  ELSE SliceLoop(bands, 1, NoTax, incomeAmount, startingPosition)

\* The tax paid of the sources from source k on, before any rounding: the
\* stated taxPaid, else for a regular source its slice tax, else 0.
RECURSIVE ExactTaxPaid(_, _, _, _, _, _)
ExactTaxPaid(srcs, incomes, k, allowanceLeft, position, bands) ==
  IF k > Len(srcs) THEN NoTax
  ELSE LET allowanceUsed == Min(allowanceLeft, incomes[k])
           taxable == incomes[k] - allowanceUsed
           paid == IF IsSet(srcs[k].taxPaid) THEN ExactAmount(Val(srcs[k].taxPaid))
                   ELSE IF srcs[k].isRegular THEN ExactSliceTax(taxable, position, bands)
                   ELSE NoTax
       IN  ExactPlus(paid, ExactTaxPaid(srcs, incomes, k + 1, allowanceLeft - allowanceUsed,
                                        position + taxable, bands))

\* The tax the adjustments from adjustment k on add, before any rounding:
\* the difference of the unrounded band tax for a taxable-income amount
\* above 0, the amount itself for a direct-tax adjustment.
RECURSIVE ExactAdjustmentTax(_, _, _, _)
ExactAdjustmentTax(adjs, k, position, bands) ==
  IF k > Len(adjs) THEN NoTax
  ELSE IF isAdjustmentTaxableIncome(adjs[k].type)
       THEN ExactPlus(IF adjs[k].amount <= 0 THEN NoTax
                      ELSE ExactMinus(ExactTaxDue(position + adjs[k].amount, bands),
                                      ExactTaxDue(position, bands)),
                      ExactAdjustmentTax(adjs, k + 1, position + adjs[k].amount, bands))
       ELSE ExactPlus(ExactAmount(adjs[k].amount),
                      ExactAdjustmentTax(adjs, k + 1, position, bands))

\* C17 (as claimed, for the incomes step 1 hands on): every figure of the
\* result is the unrounded computation rounded once: finalTaxDue is the
\* exact band tax plus the exact adjustment tax, rounded; taxPaid is the
\* exact sum of the sources' tax paid, rounded; netPosition is the exact
\* difference of the two, rounded.
C17_RoundedOnceAtOutput ==
  Done =>
    LET exactDue == ExactPlus(ExactTaxDue(taxableIncomeAfterDeductions.x, taxBands),
                              ExactAdjustmentTax(adjustments, 1,
                                                 taxableIncomeAfterDeductions.x, taxBands))
        exactPaid == ExactTaxPaid(sources, projectedIncomes, 1, personalAllowance.x, 0,
                                  taxBands)
    IN  /\ result.finalTaxDue = NearestPenny(exactDue)
        /\ result.taxPaid = NearestPenny(exactPaid)
        /\ result.netPosition = NearestPenny(ExactMinus(exactPaid, exactDue))

----------------------------------------------------------------------------
(* The worked scenarios (SpecScenario)                                     *)

\* The call is one of the scenario with the given total: the sources'
\* incomes total exactly that many pounds, no deductions, no adjustments,
\* standard bands.
ScenarioOf(pounds) ==
  /\ Done
  /\ SumOfIncomes(sources, 1) = GBP(pounds)
  /\ deductions = <<>> /\ adjustments = <<>>
  /\ ~useScottishBands

\* C20 (as claimed): incomes totalling exactly 100,000 give the full
\* allowance of 12,570 and a tax due on income of 27,486.
C20_Scenario100000Tax27486 ==
  ScenarioOf(100000) =>
    /\ result.personalAllowance = GBP(12570)
    /\ result.taxDueOnIncome = GBP(27486)

\* C20 (amended): incomes totalling exactly 100,000 give the full allowance
\* of 12,570, a taxable income of 87,430 and a tax due on income of
\* 27,432 = 20% of 37,700 + 40% of 49,730.
C20_Scenario100000Tax27432 ==
  ScenarioOf(100000) =>
    /\ result.totalIncome = GBP(100000)
    /\ result.personalAllowance = GBP(12570)
    /\ result.taxableIncomeBeforeDeductions = GBP(87430)
    /\ result.taxDueOnIncome = GBP(27432)
    /\ result.finalTaxDue = GBP(27432)

\* C20's case: two sources, each below 100,000, that total it.
C20_Witness ==
  /\ ScenarioOf(100000)
  /\ Len(sources) = 2
  /\ projectedIncomes[1] = GBP(12570) /\ projectedIncomes[2] = GBP(87430)
  /\ result.taxDueOnIncome = GBP(27432)

\* C21 (as claimed): incomes totalling exactly 125,140 give an allowance of
\* 0 and a tax due on income of 43,307.60.
C21_Scenario125140Tax43307 ==
  ScenarioOf(125140) =>
    /\ result.personalAllowance = 0
    /\ result.taxDueOnIncome = GBP(43307) + Pence(60)

\* C21 (amended): incomes totalling exactly 125,140 give an allowance of 0,
\* a taxable income of 125,140 and a tax due on income of
\* 42,516 = 20% of 37,700 + 40% of 87,440.
C21_Scenario125140Tax42516 ==
  ScenarioOf(125140) =>
    /\ result.totalIncome = GBP(125140)
    /\ result.personalAllowance = 0
    /\ result.taxableIncomeBeforeDeductions = GBP(125140)
    /\ result.taxDueOnIncome = GBP(42516)
    /\ result.finalTaxDue = GBP(42516)

\* C21's case: two sources, 100,000 and 25,140, that total the taper limit.
C21_Witness ==
  /\ ScenarioOf(125140)
  /\ Len(sources) = 2
  /\ projectedIncomes[1] = GBP(100000) /\ projectedIncomes[2] = GBP(25140)
  /\ result.personalAllowance = 0
  /\ result.taxDueOnIncome = GBP(42516)

----------------------------------------------------------------------------
(* Further claims about the calendar resolver and the projectors (SpecPAYE) *)

\* The lengths of periods 1..k of the tax year as getPAYEPeriodDates gives
\* them, added up.
RECURSIVE SumPeriodDays(_)
SumPeriodDays(k) ==
  IF k = 0 THEN 0
  ELSE SumPeriodDays(k - 1) + getPAYEPeriodDates(k, TAX_YEAR_START).daysInPeriod

\* C22 (as claimed): the tax year has TAX_YEAR_DAYS = 366 days: that is the
\* inclusive day count from TAX_YEAR_START to TAX_YEAR_END, the number of
\* days a source starting on 6 April 2025 is projected over, and the sum of
\* the twelve PAYE period lengths.
C22_TaxYearHas366Days ==
  (probe.op = "projectedByDays" /\ probe.startDate = TAX_YEAR_START) =>
    /\ daysBetween(TAX_YEAR_START, TAX_YEAR_END) = TAX_YEAR_DAYS
    /\ probe.result.daysInYear = TAX_YEAR_DAYS
    /\ SumPeriodDays(12) = TAX_YEAR_DAYS

\* The start date, today and the end date of a projection all lie in the
\* tax year, in this order.
WindowInTaxYear ==
  /\ InTaxYear(probe.startDate) /\ InTaxYear(probe.today) /\ InTaxYear(probe.endDate)
  /\ TimeOf(probe.startDate) <= TimeOf(probe.today)
  /\ TimeOf(probe.today) <= TimeOf(probe.endDate)

\* C23 (as claimed): with the periods derived from today, a start date not
\* after the as-of date and an as-of date not after the end date give
\* periodsWorked <= totalPeriods, for every start day of the month, and so a
\* projection that is not below incomeToDate.
C23_WorkedNeverExceedsTotal ==
  /\ (probe.op = "periods" /\ TimeOf(probe.startDate) <= TimeOf(probe.asOfDate)) =>
       \* the end date is TAX_YEAR_END; both counts are in days of the start period
       probe.worked.num <= probe.total.num
  /\ (probe.op = "projected" /\ ~ExplicitCount /\ WindowInTaxYear) =>
       probe.projected >= probe.incomeToDate

----------------------------------------------------------------------------
(* Claims about reordering the sources and the adjustments (Spec)          *)

\* allocateTaxSequentially's loop as a whole, from source k on.
RECURSIVE AllocateLoop(_, _, _, _)
AllocateLoop(srcs, k, acc, bands) ==
  IF k > Len(srcs) THEN acc
  ELSE AllocateLoop(srcs, k + 1,
                    AllocateStep(acc, srcs[k], FinalIncome(srcs[k], today), bands), bands)

\* The unrounded total of tax paid calculateTax adds up for a list of
\* sources (steps 1-3 and the reduce of step 7).
TotalTaxPaidOf(srcs) ==
  LET total == TotalIncomeLoop(srcs, 1, Lit(0), today)
      acc == AllocateLoop(srcs, 1,
                          [paRemaining |-> calculatePersonalAllowance(total),
                           taxablePosition |-> Lit(0), details |-> <<>>],
                          taxBands)
  IN  SumTaxPaid(acc.details, 1, Lit(0))

\* Every source is a one-off source or a regular source without taxPaid,
\* and both kinds occur.
MixesBalancedAndOneOff(srcs) ==
  /\ \A k \in 1..Len(srcs) : srcs[k].isRegular => ~IsSet(srcs[k].taxPaid)
  /\ \E k \in 1..Len(srcs) : srcs[k].isRegular
  /\ \E k \in 1..Len(srcs) : ~srcs[k].isRegular

\* C24 (as claimed): for a list that mixes regular sources without taxPaid
\* and one-off sources, calculateTax on any reordering of the sources
\* returns the same taxPaid and netPosition as the call that has just
\* returned.
C24_TaxPaidIgnoresSourceOrder ==
  (Done /\ MixesBalancedAndOneOff(sources)) =>
    \A other \in Reorderings(sources) :
      /\ safeRound(TotalTaxPaidOf(other)) = result.taxPaid
      /\ safeRound(Minus(TotalTaxPaidOf(other),
                         Plus(Lit(taxDueOnIncome), totalAdjustmentTax)))
           = result.netPosition

\* Step 6 as a whole: the loop over the adjustments from adjustment k on.
RECURSIVE AdjustLoop(_, _, _, _)
AdjustLoop(adjs, k, acc, bands) ==
  IF k > Len(adjs) THEN acc
  ELSE AdjustLoop(adjs, k + 1, AdjustStep(acc, adjs[k], bands), bands)

\* The totalAdjustmentTax step 6 adds up for a list of adjustments after
\* the deductions of the call.
TotalAdjustmentTaxOf(adjs) ==
  AdjustLoop(adjs, 1,
             [totalAdjustmentTax |-> Lit(0), totalAdditionalTaxableIncome |-> Lit(0),
              currentTaxableIncome |-> taxableIncomeAfterDeductions],
             taxBands).totalAdjustmentTax

\* The amounts of the direct-tax adjustments from adjustment k on, added up.
RECURSIVE SumDirectAdjustments(_, _)
SumDirectAdjustments(adjs, k) ==
  IF k > Len(adjs) THEN 0
  ELSE (IF isAdjustmentTaxableIncome(adjs[k].type) THEN 0 ELSE adjs[k].amount)
         + SumDirectAdjustments(adjs, k + 1)

\* C25 (as claimed): calculateTax on any reordering of the adjustments
\* returns the same total adjustment tax and finalTaxDue as the call that
\* has just returned, and the total is taxDue(T + taxable-income amounts) -
\* taxDue(T) + direct-tax amounts, T being the taxable income after
\* deductions, for amounts of either sign.
C25_AdjustmentTaxIgnoresOrder ==
  Done =>
    /\ \A other \in Reorderings(adjustments) :
         /\ safeRound(TotalAdjustmentTaxOf(other)) = result.totalAdjustments
         /\ safeRound(Plus(Lit(taxDueOnIncome), TotalAdjustmentTaxOf(other)))
              = result.finalTaxDue
    /\ result.totalAdjustments =
         calculateTaxDue(Plus(taxableIncomeAfterDeductions,
                              Lit(SumTaxableAdjustments(adjustments, 1))), taxBands)
           - calculateTaxDue(taxableIncomeAfterDeductions, taxBands)
           + SumDirectAdjustments(adjustments, 1)

----------------------------------------------------------------------------
(* Claims about the employment window and dates outside the tax year (SpecPAYE) *)

\* C26 (as claimed): for every start and end date of a regular source,
\* an end date earlier than the start date included, calculateTotalPeriods
\* returns more than 0 and at most 12 periods, so the projection of an
\* incomeToDate >= 0 is not negative.
C26_TotalPeriodsPositive ==
  (probe.op = "projected" /\ probe.incomeToDate >= 0) =>
    LET total == calculateTotalPeriods(ClampStart(probe.startDate, TAX_YEAR_START),
                                       probe.endDate, TAX_YEAR_START)
    IN  /\ 0 < total.num
        /\ total.num <= 12 * total.den
        /\ probe.projected >= 0

\* C27 (as claimed): getPAYEPeriod's periodNumber never decreases as the
\* date advances, over dates in and outside the tax year: a date before the
\* tax-year start has period 1, a date after the tax-year end period 12, and
\* the equivalent periods worked since the tax-year start never shrink as
\* the as-of date advances.
C27_PeriodNumberMonotone ==
  probe.op = "periodAnyDate" =>
    /\ \A earlier \in AnyDateProbes :
         TimeOf(earlier) <= TimeOf(probe.date) =>
           /\ getPAYEPeriod(earlier, TAX_YEAR_START).periodNumber
                <= probe.period.periodNumber
           /\ calculateEquivalentPeriods(TAX_YEAR_START, earlier, TAX_YEAR_START).num
                <= calculateEquivalentPeriods(TAX_YEAR_START, probe.date, TAX_YEAR_START).num
    /\ TimeOf(probe.date) < TimeOf(TAX_YEAR_START) => probe.period.periodNumber = 1
    /\ TimeOf(probe.date) > TimeOf(TAX_YEAR_END) => probe.period.periodNumber = 12

\* C28: for every day of the tax year, getPAYEPeriodDates of the period
\* number getPAYEPeriod returns gives the same start date, end date and
\* length as getPAYEPeriod; for every n in 1..12, getPAYEPeriod of the start
\* date and of the end date of getPAYEPeriodDates(n) has number n; period 1
\* starts on TAX_YEAR_START, each later period starts the day after the one
\* before ends, and period 12 ends on TAX_YEAR_END.
C28_PeriodLookupsRoundTrip ==
  /\ probe.op = "period" =>
       LET dates == getPAYEPeriodDates(probe.period.periodNumber, TAX_YEAR_START)
       IN  /\ dates.startDate = probe.period.startDate
           /\ dates.endDate = probe.period.endDate
           /\ dates.daysInPeriod = probe.period.daysInPeriod
  /\ (probe.op = "periodDates" /\ probe.periodNumber \in 1..12) =>
       LET n == probe.periodNumber
       IN  /\ getPAYEPeriod(probe.dates.startDate, TAX_YEAR_START).periodNumber = n
           /\ getPAYEPeriod(probe.dates.endDate, TAX_YEAR_START).periodNumber = n
           /\ n = 1 => probe.dates.startDate = TAX_YEAR_START
           /\ n > 1 => DayNumber(probe.dates.startDate) =
                         DayNumber(getPAYEPeriodDates(n - 1, TAX_YEAR_START).endDate) + 1
           /\ n = 12 => probe.dates.endDate = TAX_YEAR_END

\* C28's case: the dates of period 10, the first period that starts in the
\* second calendar year, looked up by number and found again from its end
\* date.
C28_Witness ==
  /\ probe.op = "periodDates" /\ probe.periodNumber = 10
  /\ probe.dates.startDate = DateOf(TAX_YEAR_END.y, 0, 6)
  /\ getPAYEPeriod(probe.dates.endDate, TAX_YEAR_START).periodNumber = 10
  /\ getPAYEPeriod(probe.dates.endDate, TAX_YEAR_START).startDate = probe.dates.startDate

----------------------------------------------------------------------------
(* Claims about the aggregate taxable income (Spec) *)

\* sourceDetails.taxableIncome, from detail k on, added up.
RECURSIVE SumTaxableIncome(_, _)
SumTaxableIncome(details, k) ==
  IF k > Len(details) THEN 0
  ELSE details[k].taxableIncome + SumTaxableIncome(details, k + 1)

\* No amount the caller passes is negative.
NonNegativeInputs ==
  /\ \A k \in 1..Len(sources) :
       /\ sources[k].incomeToDate >= 0
       /\ IsSet(sources[k].projectedIncome) => Val(sources[k].projectedIncome) >= 0
       /\ IsSet(sources[k].taxPaid) => Val(sources[k].taxPaid) >= 0
  /\ \A k \in 1..Len(deductions) : deductions[k].amount >= 0
  /\ \A k \in 1..Len(adjustments) : adjustments[k].amount >= 0

\* C29 (as claimed): for non-negative inputs the returned
\* taxableIncomeBeforeDeductions is the sum of the sources' taxableIncome,
\* also when total income is below the personal allowance, and no monetary
\* field of the result other than netPosition (and the per-source
\* difference) is negative.
C29_TaxableBeforeDeductionsIsSum ==
  (Done /\ NonNegativeInputs) =>
    /\ result.taxableIncomeBeforeDeductions = SumTaxableIncome(result.sourceDetails, 1)
    /\ result.totalIncome >= 0 /\ result.personalAllowance >= 0
    /\ result.totalDeductions >= 0
    /\ result.taxableIncomeBeforeDeductions >= 0
    /\ result.taxableIncomeAfterDeductions >= 0 /\ result.taxableIncome >= 0
    /\ result.taxDueOnIncome >= 0 /\ result.totalAdjustments >= 0
    /\ result.finalTaxDue >= 0 /\ result.taxDue >= 0 /\ result.taxPaid >= 0
    /\ \A k \in 1..Len(result.sourceDetails) :
         LET detail == result.sourceDetails[k]
         IN  /\ detail.income >= 0 /\ detail.paUsed >= 0 /\ detail.taxableIncome >= 0
             /\ detail.taxDue >= 0 /\ detail.taxPaid >= 0

----------------------------------------------------------------------------
(* Claims about the day-based projector (SpecPAYE) *)

\* The projection at the daily rate, without the cap, as the projector
\* rounds it.
UncappedProjection(incomeToDate, daysWorked, daysInYear) ==
  IF ScaledIsHalfway(incomeToDate, daysInYear, daysWorked)
  THEN Pence(RoundedPence(DailyProjectionDouble(incomeToDate, daysWorked, daysInYear)))
  ELSE RoundScaled(incomeToDate, daysInYear, daysWorked)

\* C30 (as claimed): in the day-based projector, with fewer than 7 days
\* worked, an incomeToDate above 0 and more days in the employment period
\* than days worked, the returned projection is lower than the daily-rate
\* projection incomeToDate / daysWorked * daysInYear.
C30_FewDaysProjectionCapped ==
  (/\ probe.op = "projectedByDays"
   /\ probe.incomeToDate > 0
   /\ probe.result.daysWorked < MIN_DAYS_FOR_PROJECTION
   /\ probe.result.daysInYear > probe.result.daysWorked) =>
    probe.result.projected <
      UncappedProjection(probe.incomeToDate, probe.result.daysWorked,
                         probe.result.daysInYear)

====

